---- MODULE Spec2Model ----
(***************************************************************************)
(* A model of the buildomat job-control plane: the user API of             *)
(* server/src/api/user.rs, the Central helpers of server/src/main.rs and   *)
(* the durable store, file staging, assignment loop, factory lease         *)
(* protocol and archiver that they call.                                   *)
(***************************************************************************)
EXTENDS Integers, Sequences, FiniteSets, TLC

(***************************************************************************)
(* Bounds of the model.                                                    *)
(***************************************************************************)
MaxJobs == 2
MaxWorkers == 2
MaxEvents == 3
MaxTime == 1

JobIds == 1..MaxJobs
WorkerIds == 1..MaxWorkers
Factories == {"f1", "f2"}
InputNames == {<<"i", "n">>}
PathNames == {<<"a", "/", "b">>}
OutputPaths == {<<"/", "o">>}
CommitIds == {"k1"}
UserNames == {"u1", "u2", "u3"}

\* The user whose requests the lifecycle scenarios follow.
Requester == "u1"

(***************************************************************************)
(* State.                                                                  *)
(***************************************************************************)
VARIABLES
    job,        \* the job table: JobIds -> job row
    events,     \* the job_event table: JobIds -> set of rows, keyed by seq
    worker,     \* the worker table: WorkerIds -> worker row
    leases,     \* CentralInner.leases: set of [factory, job, expires]
    now,        \* the clock that lease expiry is measured against
    files,      \* Files: JobIds -> [commits, completed], the in-flight map
    chunks,     \* chunk/{job}/{chunk_id}: JobIds -> sequence of chunks
    jobfile,    \* the job_file table: JobIds -> set of [id, size, bytes, commit]
    blob,       \* the object store: JobIds -> archived job document
    resp,       \* the response of the request handled last
    evlog,      \* history: JobIds -> the events accepted, in order
    ledger,     \* history: JobIds -> CommitIds -> the commit as first made
    cache,      \* archive/{job}.json: JobIds -> the cached job document
    staged,     \* output/{job}/{file}: JobIds -> set of [id, bytes] on disk
    object,     \* the object store: JobIds -> set of [id, bytes] uploaded
    jobstore,   \* the job_store table: JobIds -> set of entries, one a name
    user,       \* the user table: set of [name, privs]
    targets,    \* the target table: set of [id, name, redirect_to, privilege]
    published,  \* the published_file table: set of [job, file, series,
                \* version, name]
    delivery,   \* the delivery table of the GitHub server: sequence of
                \* uuids, a delivery's seq being its place
    webhook,    \* the webhook requests: RequestIds -> the place of the handler
    dblock,     \* another process holds the lock of the GitHub database
    target_dir, \* the cargo target directory that `cache upload` cleans:
                \* [rustc_info, deps, fingerprint]
    checkrun,   \* the check run row of the GitHub database: [active,
                \* flushed, content, target, private]
    submitted   \* history: the jobs that the check run's job_submit
                \* requests have created

vars ==
    <<job, events, worker, leases, now, files, chunks, jobfile, blob, resp,
      evlog, ledger, cache, staged, object, jobstore, user, targets,
      published, delivery, webhook, dblock, target_dir, checkrun,
      submitted>>

\* The state of the archive cache, of the staged and uploaded output files,
\* of the job store, of the user and target tables and of the published
\* files.
\* The state outside the two servers.
ext_vars == <<target_dir, checkrun, submitted>>

cold_vars ==
    <<cache, staged, object, jobstore, user, targets, published, delivery,
      webhook, dblock, ext_vars>>

(***************************************************************************)
(* Rows and documents.                                                     *)
(***************************************************************************)
NoJob ==
    [created |-> FALSE, waiting |-> FALSE, complete |-> FALSE,
     failed |-> FALSE, cancelled |-> FALSE, archived |-> FALSE,
     worker |-> 0, owner |-> "none", target |-> "none", declared |-> {},
     inputs |-> {}, outputs |-> {}, deps |-> {}]

NoWorker ==
    [created |-> FALSE, factory |-> "none", target |-> "none",
     deleted |-> FALSE, recycle |-> FALSE, token |-> FALSE, wait_for |-> 0]

NoCommit == [state |-> "none", name |-> <<>>, size |-> 0, chunks |-> <<>>]

NoFiles == [commits |-> [k \in CommitIds |-> NoCommit], completed |-> FALSE]

\* A job document: form is "good" for one that parses and is_valid,
\* "stale" for one that parses and fails is_valid, "junk" for one that
\* does not parse.
NoBlob ==
    [stored |-> FALSE, form |-> "none", events |-> {}, outputs |-> {},
     store |-> {}]

NoArg == [inputs |-> {}, depends |-> {}]

NoResp == [op |-> "none", job |-> 0, res |-> "", arg |-> NoArg]

\* A target directory with nothing in it.
NoTargetDir == [rustc_info |-> FALSE, deps |-> {}, fingerprint |-> {}]

\* BasicPrivate of a check run that has done nothing: error "none",
\* buildomat_id 0 and job_state "none" stand for None; events_tail holds
\* the seq of each line; added is history, the seq of every line that was
\* ever pushed onto events_tail.
NoPrivate ==
    [complete |-> FALSE, cancelled |-> FALSE, error |-> "none",
     buildomat_id |-> 0, job_state |-> "none", event_minseq |-> 0,
     events_tail |-> <<>>, added |-> <<>>]

NoCheckRun ==
    [active |-> FALSE, flushed |-> TRUE, content |-> FALSE,
     target |-> "none", private |-> NoPrivate]

InitExt ==
    /\ target_dir = NoTargetDir
    /\ checkrun = NoCheckRun
    /\ submitted = {}

\* A webhook request that has not arrived.
MaxRequests == 2
RequestIds == 1..MaxRequests

NoRequest ==
    [pc |-> "none", uuid |-> "", tries |-> 0, slept |-> 0, last |-> "none",
     res |-> "", seq |-> 0, new |-> FALSE]

(***************************************************************************)
(* The target table.  A row is found by its name and referred to by its   *)
(* id.  To begin with "old" is the signpost a rename left behind, and      *)
(* redirects to "t1"; "nope" is no target at all.                          *)
(***************************************************************************)
NoTarget ==
    [id |-> "none", name |-> "none", redirect_to |-> "none",
     privilege |-> "none"]

Targets ==
    {[NoTarget EXCEPT !.id = n, !.name = n,
                      !.redirect_to = IF n = "old" THEN "t1" ELSE "none"] :
        n \in {"t1", "t2", "old"}}

\* The row of a name, and the row of an id; NoTarget if there is none.
target_by_name(rows, name) ==
    IF \E t \in rows : t.name = name
    THEN CHOOSE t \in rows : t.name = name
    ELSE NoTarget

target_by_id(rows, id) ==
    IF \E t \in rows : t.id = id
    THEN CHOOSE t \in rows : t.id = id
    ELSE NoTarget

\* Resolution that comes back to a row it has been at never ends.
Diverges == [NoTarget EXCEPT !.id = "diverges"]

\* target_resolve: the row of the name, then redirect_to row after row
\* until one that has no redirect; NoTarget if a row is missing.
RECURSIVE target_follow(_, _, _)
target_follow(rows, t, seen) ==
    IF t = NoTarget \/ t.redirect_to = "none"
    THEN t
    ELSE IF t.id \in seen
         THEN Diverges
         ELSE target_follow(rows, target_by_id(rows, t.redirect_to),
                            seen \cup {t.id})

target_resolve_row(name) ==
    target_follow(targets, target_by_name(targets, name), {})

target_resolve(name) == target_resolve_row(name).id

\* target_create: a new row, which redirects nowhere.
target_create(rows, id, name, privilege) ==
    rows \cup {[NoTarget EXCEPT !.id = id, !.name = name,
                                !.privilege = privilege]}

\* target_require_privilege: the privilege a user needs for the target.
target_require_privilege(rows, id, privilege) ==
    {IF t.id = id THEN [t EXCEPT !.privilege = privilege] ELSE t : t \in rows}

\* target_rename: the row takes the new name, and a signpost row that
\* redirects to it takes the old one.
target_rename_back(rows, id, new_name, signpost) ==
    {IF t.id = id THEN [t EXCEPT !.name = new_name, !.redirect_to = signpost]
     ELSE t : t \in rows}
    \cup {[NoTarget EXCEPT !.id = signpost,
                           !.name = target_by_id(rows, id).name,
                           !.redirect_to = id]}

target_rename(rows, id, new_name, signpost) ==
    {IF t.id = id THEN [t EXCEPT !.name = new_name] ELSE t : t \in rows}
    \cup {[NoTarget EXCEPT !.id = signpost,
                           !.name = target_by_id(rows, id).name,
                           !.redirect_to = id]}

(***************************************************************************)
(* format_job_state: the state string of a job row.                        *)
(***************************************************************************)
format_job_state_swapped(j) ==
    IF j.failed THEN "failed"
    ELSE IF j.complete THEN "completed"
    ELSE IF j.waiting THEN "waiting"
    ELSE IF j.worker # 0 THEN "running"
    ELSE "queued"

format_job_state(j) ==
    IF j.failed THEN "failed"
    ELSE IF j.complete THEN "completed"
    ELSE IF j.worker # 0 THEN "running"
    ELSE IF j.waiting THEN "waiting"
    ELSE "queued"

(***************************************************************************)
(* Small helpers.                                                          *)
(***************************************************************************)
Max(S) == CHOOSE x \in S : \A y \in S : y <= x

Min(S) == CHOOSE x \in S : \A y \in S : x <= y

Range(f) == {f[x] : x \in DOMAIN f}

RECURSIVE SumSeq(_)
SumSeq(s) == IF s = <<>> THEN 0 ELSE Head(s) + SumSeq(Tail(s))

Created == {j \in JobIds : job[j].created}

Queued(j) ==
    /\ job[j].created
    /\ ~job[j].waiting
    /\ ~job[j].complete
    /\ job[j].worker = 0

(***************************************************************************)
(* The durable store.                                                      *)
(***************************************************************************)

\* The dependency that the GitHub front-end declares on the job of another
\* check run.
BasicDepend_on_failed(prior) ==
    [prior |-> prior, copy_outputs |-> TRUE, on_failed |-> TRUE,
     on_completed |-> FALSE, satisfied |-> FALSE]

BasicDepend_permissive(prior) ==
    [prior |-> prior, copy_outputs |-> TRUE, on_failed |-> TRUE,
     on_completed |-> TRUE, satisfied |-> FALSE]

BasicDepend(prior) ==
    [prior |-> prior, copy_outputs |-> TRUE, on_failed |-> FALSE,
     on_completed |-> TRUE, satisfied |-> FALSE]

\* The dependencies a submission may declare on one prior job.
DependOn(prior) ==
    { BasicDepend(prior),
      [prior |-> prior, copy_outputs |-> FALSE, on_failed |-> TRUE,
       on_completed |-> FALSE, satisfied |-> FALSE] }

\* job_create: a job waits for its inputs and for its dependencies.
job_create(owner, target, inputs, depends) ==
    [NoJob EXCEPT !.created = TRUE,
                  !.owner = owner,
                  !.waiting = (inputs # {} \/ depends # {}),
                  !.target = target,
                  !.declared = inputs,
                  !.deps = depends]

\* The names of the declared inputs that have no file yet.
MissingInputs(jr) == jr.declared \ {i.name : i \in jr.inputs}

\* A waiting job may leave waiting once no input is missing and every
\* dependency is satisfied.
Ready(jr) == MissingInputs(jr) = {} /\ \A d \in jr.deps : d.satisfied

NextSeq(rows) == IF rows = {} THEN 0 ELSE Max({e.seq : e \in rows}) + 1

\* job_event_append: the next seq is assigned in the transaction that
\* inserts the row; an archived job takes no more events.
job_event_append(rows, jr, stream, payload) ==
    IF jr.archived
    THEN rows
    ELSE rows \cup
            {[seq |-> NextSeq(rows), stream |-> stream, payload |-> payload]}

\* The history of accepted events, kept beside the table.
LogAppend(log, rows, jr, stream, payload) ==
    IF jr.archived
    THEN log
    ELSE Append(log,
            [seq |-> NextSeq(rows), stream |-> stream, payload |-> payload])

\* Rows sorted by seq, ascending.
RECURSIVE SortBySeq(_)
SortBySeq(rows) ==
    IF rows = {}
    THEN <<>>
    ELSE LET m == Min({e.seq : e \in rows})
             first == CHOOSE e \in rows : e.seq = m
         IN  <<first>> \o SortBySeq(rows \ {first})

\* job_events(minseq): the rows from minseq on, in seq order.
job_events(rows, minseq) == SortBySeq({e \in rows : e.seq >= minseq})

\* job_complete: the transition happens once; the result says whether this
\* call performed it.
job_complete_result(jr) == ~jr.complete

job_complete_keepworker(jr, failed) ==
    IF jr.complete
    THEN jr
    ELSE [jr EXCEPT !.complete = TRUE, !.failed = failed \/ jr.cancelled,
                    !.waiting = FALSE]

\* job_complete: a job that was cancelled is marked failed whatever the
\* worker reports.
job_complete(jr, failed) ==
    IF jr.complete
    THEN jr
    ELSE [jr EXCEPT !.complete = TRUE, !.failed = failed \/ jr.cancelled,
                    !.worker = 0, !.waiting = FALSE]

\* job_cancel: refused for a complete job; a job without a worker is
\* completed as failed at once.
job_cancel_ok_always(jr) == TRUE

job_cancel_ok(jr) == ~jr.complete

job_cancel(jr) ==
    IF ~job_cancel_ok(jr)
    THEN jr
    ELSE IF jr.worker = 0
         THEN [jr EXCEPT !.cancelled = TRUE, !.complete = TRUE,
                         !.failed = TRUE, !.waiting = FALSE]
         ELSE [jr EXCEPT !.cancelled = TRUE]

\* job_add_input: refused once the job has left waiting, and for a name
\* that already has a file; the last missing input ends the wait.
job_add_input_ok(jr, name) ==
    jr.waiting /\ name \notin {i.name : i \in jr.inputs}

job_add_input(jr, name, file) ==
    LET withInput == [jr EXCEPT !.inputs = @ \cup {[name |-> name, file |-> file]}]
    IN  [withInput EXCEPT !.waiting = ~Ready(withInput)]

(***************************************************************************)
(* File staging.                                                           *)
(***************************************************************************)
MaxChunks == 2
MaxBytesPerInput == 3
MaxBytesSync == 1073741824

\* The bytes of a chunk or of a file are written as runs <<byte, count>>,
\* no two adjacent runs of the same byte, so that a file of 1 GiB has a
\* value.
chunk_len(data) == SumSeq([i \in 1..Len(data) |-> data[i][2]])

ChunkData == {<< <<1, 1>> >>, << <<2, 1>>, <<3, 1>> >>}
ChunkLists == {<<1>>, <<1, 2>>}
Sizes == {1, 3, 4}

\* The bytes of a followed by the bytes of b.
Join(a, b) ==
    IF a = <<>> THEN b
    ELSE IF b = <<>> THEN a
    ELSE IF a[Len(a)][1] = b[1][1]
    THEN SubSeq(a, 1, Len(a) - 1)
            \o << <<b[1][1], a[Len(a)][2] + b[1][2]>> >> \o Tail(b)
    ELSE a \o b

RECURSIVE Concat(_, _)
Concat(store, cl) ==
    IF cl = <<>> THEN <<>>
    ELSE Join(store[Head(cl)], Concat(store, Tail(cl)))

\* Central::commit_file: every chunk must exist and the sizes must add up
\* to the expected size; the file is the concatenation of the chunks.
commit_file_ok(store, cl, expected_size) ==
    /\ \A i \in 1..Len(cl) : cl[i] \in 1..Len(store)
    /\ SumSeq([i \in 1..Len(cl) |-> chunk_len(store[cl[i]])]) = expected_size

commit_file_bytes_reversed(store, cl) ==
    Concat(store, [i \in 1..Len(cl) |-> cl[Len(cl) + 1 - i]])

commit_file_bytes(store, cl) == Concat(store, cl)

\* Files::commit_file_exists
commit_file_exists(fr, k) == fr.commits[k].state # "none"

SameParams(c, name, size, cl) ==
    c.name = name /\ c.size = size /\ c.chunks = cl

\* Files::commit_file: the progress of the commit, "pending", "ok" or
\* "failed", or "err" when the request cannot be taken.
files_commit_file_res(fr, k, name, size, cl) ==
    LET c == fr.commits[k]
    IN  IF c.state = "none"
        THEN IF fr.completed THEN "err" ELSE "pending"
        ELSE IF ~SameParams(c, name, size, cl)
             THEN "err"
             ELSE IF c.state = "inflight" THEN "pending" ELSE c.state

files_commit_file(fr, k, name, size, cl) ==
    IF fr.commits[k].state = "none" /\ ~fr.completed
    THEN [fr EXCEPT !.commits[k] =
            [state |-> "inflight", name |-> name, size |-> size,
             chunks |-> cl]]
    ELSE fr

\* Files::mark_job_completed declines while an upload is in flight.
mark_job_completed_ok_always(fr) == TRUE

mark_job_completed_ok(fr) ==
    \A k \in CommitIds : fr.commits[k].state # "inflight"

mark_job_completed(fr) == [fr EXCEPT !.completed = TRUE]

\* Files::forget_job drops the bookkeeping of the job.
forget_job(fr) == NoFiles

(***************************************************************************)
(* Central::complete_job                                                   *)
(***************************************************************************)
complete_job_res_always(fr, jr) ==
    IF ~mark_job_completed_ok(fr) THEN "error" ELSE "true"

complete_job_res(fr, jr) ==
    IF ~mark_job_completed_ok(fr)
    THEN "error"
    ELSE IF job_complete_result(jr) THEN "true" ELSE "false"

complete_job_row(fr, jr, failed) ==
    IF ~mark_job_completed_ok(fr) THEN jr ELSE job_complete(jr, failed)

complete_job_files(fr) ==
    IF ~mark_job_completed_ok(fr) THEN fr ELSE forget_job(mark_job_completed(fr))

(***************************************************************************)
(* Central::load_job_events and the archive document.                      *)
(***************************************************************************)
archive_job_events(doc, minseq) ==
    SortBySeq({e \in doc.events : e.seq >= minseq})

load_job_events_live(jr, rows, doc, minseq) == job_events(rows, minseq)

load_job_events(jr, rows, doc, minseq) ==
    IF jr.archived
    THEN archive_job_events(doc, minseq)
    ELSE job_events(rows, minseq)

\* Central::archive_load.  A cached file that does not parse ends the call
\* with the parse error; one that parses and is_valid is returned; one that
\* fails is_valid is unlinked and the document is fetched.  A fetched
\* document that parses and is_valid is written to the cache through a
\* temporary file and returned; any other fetch ends the call in an error.
cache_unreadable(c) == c.stored /\ c.form = "junk"

cache_hit(c) == c.stored /\ c.form = "good"

fetch_ok(b) == b.stored /\ b.form = "good"

archive_load_res(c, b) ==
    IF cache_unreadable(c) THEN "err"
    ELSE IF cache_hit(c) THEN "ok"
    ELSE IF fetch_ok(b) THEN "ok" ELSE "err"

archive_load_doc(c, b) ==
    IF cache_unreadable(c) THEN NoBlob
    ELSE IF cache_hit(c) THEN c
    ELSE IF fetch_ok(b) THEN b ELSE NoBlob

archive_load_cache(c, b) ==
    IF cache_unreadable(c) THEN c
    ELSE IF cache_hit(c) THEN c
    ELSE IF fetch_ok(b) THEN b ELSE NoBlob

\* ArchivedJob::job_outputs and Central::load_job_outputs.
archive_job_outputs(doc) == doc.outputs

load_job_outputs_archive(jr, doc) == archive_job_outputs(doc)

load_job_outputs(jr, doc) ==
    IF jr.archived THEN archive_job_outputs(doc) ELSE jr.outputs

\* Central::load_job_output: the output record of a file of the job, from
\* the document or from the database; no record is an error.
load_job_output(jr, doc, file) ==
    {o \in load_job_outputs(jr, doc) : o.file = file}

\* Central::file_response.  The local path is tested with is_file and then
\* opened, and the file may be unlinked between the two; with no local file
\* the object store is asked.  The response carries the bytes and the size.
NoFile == [res |-> "err", bytes |-> <<>>, size |-> 0]

FileOf(S, id) == {f \in S : f.id = id}

file_response(is_file, disk, objs, id) ==
    IF is_file
    THEN IF FileOf(disk, id) # {}
         THEN LET f == CHOOSE f \in FileOf(disk, id) : TRUE
              IN  [res |-> "ok", bytes |-> f.bytes, size |-> Len(f.bytes)]
         ELSE NoFile
    ELSE IF FileOf(objs, id) # {}
         THEN LET f == CHOOSE f \in FileOf(objs, id) : TRUE
              IN  [res |-> "ok", bytes |-> f.bytes, size |-> Len(f.bytes)]
         ELSE NoFile

\* db::job_store_put: the entry of the name is made or replaced.
job_store_put(rows, name, value, secret, source) ==
    {e \in rows : e.name # name} \cup
        {[name |-> name, value |-> value, secret |-> secret,
          source |-> source]}

\* job_store_get_all: the entries of the job, from the document when the
\* job is archived and from the database otherwise; the value of a secret
\* entry is not passed back.
NoValue == "none"

job_store_info_plain(e) ==
    [name |-> e.name, value |-> e.value, secret |-> e.secret,
     source |-> e.source]

job_store_info(e) ==
    [name |-> e.name, value |-> IF e.secret THEN NoValue ELSE e.value,
     secret |-> e.secret, source |-> e.source]

job_store_get_all_open(archived, rows, doc) ==
    IF archived
    THEN {job_store_info_plain(e) : e \in doc.store}
    ELSE {job_store_info(e) : e \in rows}

job_store_get_all(archived, rows, doc) ==
    IF archived
    THEN {job_store_info(e) : e \in doc.store}
    ELSE {job_store_info(e) : e \in rows}

(***************************************************************************)
(* Initial state: empty tables, nothing staged, no request in flight.      *)
(***************************************************************************)
Init ==
    /\ job = [j \in JobIds |-> NoJob]
    /\ events = [j \in JobIds |-> {}]
    /\ worker = [w \in WorkerIds |-> NoWorker]
    /\ leases = {}
    /\ now = 0
    /\ files = [j \in JobIds |-> NoFiles]
    /\ chunks = [j \in JobIds |-> <<>>]
    /\ jobfile = [j \in JobIds |-> {}]
    /\ blob = [j \in JobIds |-> NoBlob]
    /\ resp = NoResp
    /\ evlog = [j \in JobIds |-> <<>>]
    /\ ledger = [j \in JobIds |-> [k \in CommitIds |-> NoCommit]]
    /\ cache = [j \in JobIds |-> NoBlob]
    /\ staged = [j \in JobIds |-> {}]
    /\ object = [j \in JobIds |-> {}]
    /\ jobstore = [j \in JobIds |-> {}]
    /\ user = {}
    /\ targets = Targets
    /\ published = {}
    /\ delivery = <<>>
    /\ webhook = [r \in RequestIds |-> NoRequest]
    /\ dblock = FALSE
    /\ InitExt

(***************************************************************************)
(* The user API.  A handler loads the job row and then acts on it, so the  *)
(* flag it tests may be stale: the value the row had at any moment since   *)
(* the job was created.  complete and archived only ever become true and   *)
(* waiting only ever becomes false, so the values a handler may have       *)
(* loaded are the current one and the one before that change.              *)
(***************************************************************************)
Done(op, j, res) == [op |-> op, job |-> j, res |-> res, arg |-> NoArg]

\* The response to a submission, with the inputs and dependencies it named.
Accepted(id, inputs, depends) ==
    [op |-> "job_submit", job |-> id, res |-> "201",
     arg |-> [inputs |-> inputs, depends |-> depends]]

LoadedComplete(j) == IF job[j].complete THEN BOOLEAN ELSE {FALSE}

LoadedWaiting(j) ==
    IF job[j].waiting
    THEN {TRUE}
    ELSE IF job[j].declared # {} \/ job[j].deps # {}
         THEN BOOLEAN
         ELSE {FALSE}

\* The sets of dependencies a submission may declare: at most one on each
\* job that exists.
DependSets ==
    { D \in SUBSET (UNION {DependOn(p) : p \in Created}) :
        \A d1, d2 \in D : d1.prior = d2.prior => d1 = d2 }

\* job_submit without the dependencies of the submission.
job_submit_row_nodeps(tname, inputs, depends) ==
    job_create(Requester, target_resolve(tname), inputs, {})

\* job_submit: the row that db.job_create is asked to make.
job_submit_row(tname, inputs, depends) ==
    job_create(Requester, target_resolve(tname), inputs, depends)

JobSubmit(tname, inputs, depends) ==
    /\ JobIds \ Created # {}
    /\ LET id == Min(JobIds \ Created)
       IN  IF target_resolve(tname) = "none"
           THEN /\ resp' = Done("job_submit", 0, "400")
                /\ UNCHANGED job
           ELSE /\ job' = [job EXCEPT
                            ![id] = job_submit_row(tname, inputs, depends)]
                /\ resp' = Accepted(id, inputs, depends)
    /\ UNCHANGED <<events, worker, leases, now, files, chunks, jobfile, blob,
                   evlog, ledger>>
    /\ UNCHANGED cold_vars

JobCancel(j, loaded_complete) ==
    /\ job[j].created
    /\ loaded_complete \in LoadedComplete(j)
    /\ IF loaded_complete \/ ~job_cancel_ok(job[j])
       THEN /\ resp' = Done("job_cancel", j, "409")
            /\ UNCHANGED job
       ELSE /\ job' = [job EXCEPT ![j] = job_cancel(job[j])]
            /\ resp' = Done("job_cancel", j, "204")
    /\ UNCHANGED <<events, worker, leases, now, files, chunks, jobfile, blob,
                   evlog, ledger>>
    /\ UNCHANGED cold_vars

JobUploadChunk(j, loaded_waiting, data) ==
    /\ job[j].created
    /\ loaded_waiting \in LoadedWaiting(j)
    /\ Len(chunks[j]) < MaxChunks
    /\ IF ~loaded_waiting
       THEN /\ resp' = Done("job_upload_chunk", j, "409")
            /\ UNCHANGED chunks
       ELSE /\ chunks' = [chunks EXCEPT ![j] = Append(@, data)]
            /\ resp' = Done("job_upload_chunk", j, "201")
    /\ UNCHANGED <<job, events, worker, leases, now, files, jobfile, blob,
                   evlog, ledger>>
    /\ UNCHANGED cold_vars

contains_slash(name) == \E i \in 1..Len(name) : name[i] = "/"

\* The response of job_add_input for a progress of Files::commit_file.
add_input_response(progress) ==
    CASE progress = "ok" -> "200:complete"
      [] progress = "failed" -> "200:complete:error"
      [] progress = "pending" -> "200:pending"
      [] OTHER -> "400"

\* job_add_input turns away a job that has left waiting, unless the commit
\* is one it has seen.
add_input_conflict(loaded_waiting, fr, k) ==
    ~loaded_waiting /\ ~commit_file_exists(fr, k)

JobAddInput(j, loaded_waiting, k, name, size, cl) ==
    /\ job[j].created
    /\ loaded_waiting \in LoadedWaiting(j)
    /\ LET fr == files[j]
       IN  IF contains_slash(name) \/ size > MaxBytesPerInput
           THEN /\ resp' = Done("job_add_input", j, "400")
                /\ UNCHANGED <<files, ledger>>
           ELSE IF add_input_conflict(loaded_waiting, fr, k)
           THEN /\ resp' = Done("job_add_input", j, "409")
                /\ UNCHANGED <<files, ledger>>
           ELSE /\ resp' = Done("job_add_input", j,
                            add_input_response(files_commit_file_res(
                                fr, k, name, size, cl)))
                /\ files' = [files EXCEPT ![j] =
                                files_commit_file(fr, k, name, size, cl)]
                /\ ledger' =
                    IF files'[j] # fr /\ ledger[j][k].state = "none"
                    THEN [ledger EXCEPT ![j][k] = files'[j].commits[k]]
                    ELSE ledger
    /\ UNCHANGED <<job, events, worker, leases, now, chunks, jobfile, blob,
                   evlog>>
    /\ UNCHANGED cold_vars

\* job_add_input_sync: the file is assembled by the handler itself, then
\* the store records it and the input in one transaction, which turns away
\* a job that has left waiting (409) and a name that already has a file.
JobAddInputSync(j, loaded_waiting, name, size, cl) ==
    /\ job[j].created
    /\ loaded_waiting \in LoadedWaiting(j)
    /\ LET id == Cardinality(jobfile[j]) + 1
       IN  IF ~loaded_waiting
           THEN /\ resp' = Done("job_add_input_sync", j, "409")
                /\ UNCHANGED <<job, jobfile>>
           ELSE IF size < 0 \/ size > MaxBytesSync \/ contains_slash(name)
                   \/ ~commit_file_ok(chunks[j], cl, size)
           THEN /\ resp' = Done("job_add_input_sync", j, "400")
                /\ UNCHANGED <<job, jobfile>>
           ELSE IF ~job[j].waiting
           THEN /\ resp' = Done("job_add_input_sync", j, "409")
                /\ UNCHANGED <<job, jobfile>>
           ELSE IF ~job_add_input_ok(job[j], name)
           THEN /\ \E r \in {"409", "500"} :
                        resp' = Done("job_add_input_sync", j, r)
                /\ UNCHANGED <<job, jobfile>>
           ELSE /\ jobfile' = [jobfile EXCEPT ![j] = @ \cup
                        {[id |-> id, size |-> size,
                          bytes |-> commit_file_bytes(chunks[j], cl),
                          commit |-> "sync"]}]
                /\ job' = [job EXCEPT ![j] =
                                job_add_input(@, name, <<j, id>>)]
                /\ resp' = Done("job_add_input_sync", j, "204")
    /\ UNCHANGED <<events, worker, leases, now, files, chunks, blob, evlog,
                   ledger>>
    /\ UNCHANGED cold_vars

\* One commit taken up by the files worker pool: assemble the file, then
\* record it and the input in one transaction.
FilesWorker(j, k) ==
    /\ files[j].commits[k].state = "inflight"
    /\ LET c == files[j].commits[k]
           ok == /\ commit_file_ok(chunks[j], c.chunks, c.size)
                 /\ job_add_input_ok(job[j], c.name)
           id == Cardinality(jobfile[j]) + 1
           outcome == IF ok THEN "ok" ELSE "failed"
       IN  /\ files' = [files EXCEPT ![j].commits[k].state = outcome]
           /\ ledger' = IF ledger[j][k].state = "inflight"
                        THEN [ledger EXCEPT ![j][k].state = outcome]
                        ELSE ledger
           /\ IF ok
              THEN /\ jobfile' = [jobfile EXCEPT ![j] = @ \cup
                        {[id |-> id, size |-> c.size,
                          bytes |-> commit_file_bytes(chunks[j], c.chunks),
                          commit |-> k]}]
                   /\ job' = [job EXCEPT ![j] =
                                job_add_input(@, c.name, <<j, id>>)]
              ELSE UNCHANGED <<job, jobfile>>
    /\ resp' = NoResp
    /\ UNCHANGED <<events, worker, leases, now, chunks, blob, evlog>>
    /\ UNCHANGED cold_vars

(***************************************************************************)
(* The factory lease protocol and the workers.                             *)
(***************************************************************************)
MaxTtl == 1

JobsOf(w) == {j \in JobIds : job[j].created /\ job[j].worker = w}

\* A job that a factory may lease: queued, of the target, without a lease.
Leasable_any(j, t) ==
    /\ Queued(j)
    /\ ~job[j].cancelled
    /\ job[j].target = t

Leasable(j, t) ==
    /\ Queued(j)
    /\ ~job[j].cancelled
    /\ job[j].target = t
    /\ ~\E l \in leases : l.job = j

FactoryLease(f, t, ttl) ==
    /\ \E j \in JobIds : Leasable(j, t)
    /\ LET j == Min({x \in JobIds : Leasable(x, t)})
       IN  leases' = leases \cup
                {[factory |-> f, job |-> j, expires |-> now + ttl]}
    /\ resp' = NoResp
    /\ UNCHANGED <<job, events, worker, now, files, chunks, jobfile, blob,
                   evlog, ledger>>
    /\ UNCHANGED cold_vars

FactoryLeaseRenew(f, j, ttl) ==
    /\ \E l \in leases :
        /\ l.job = j
        /\ l.factory = f
        /\ l.expires > now
        /\ leases' = (leases \ {l}) \cup
                {[factory |-> f, job |-> j, expires |-> now + ttl]}
    /\ resp' = NoResp
    /\ UNCHANGED <<job, events, worker, now, files, chunks, jobfile, blob,
                   evlog, ledger>>
    /\ UNCHANGED cold_vars

FactoryWorkerCreate(f, t, j) ==
    /\ \E w \in WorkerIds : ~worker[w].created
    /\ j = 0 \/ \E l \in leases : l.job = j /\ l.factory = f
    /\ LET w == Min({x \in WorkerIds : ~worker[x].created})
       IN  worker' = [worker EXCEPT ![w] =
                [NoWorker EXCEPT !.created = TRUE, !.factory = f,
                                 !.target = t, !.wait_for = j]]
    /\ resp' = NoResp
    /\ UNCHANGED <<job, events, leases, now, files, chunks, jobfile, blob,
                   evlog, ledger>>
    /\ UNCHANGED cold_vars

\* A worker that may be given a job: bootstrapped, not deleted, not being
\* recycled, holding no job.
Idle_any(w) ==
    /\ worker[w].created
    /\ worker[w].token
    /\ ~worker[w].deleted
    /\ ~worker[w].recycle

Idle(w) ==
    /\ worker[w].created
    /\ worker[w].token
    /\ ~worker[w].deleted
    /\ ~worker[w].recycle
    /\ JobsOf(w) = {}

\* The assignment transaction: the job row, and the "assigned" event.
Assign(j, w) ==
    /\ job' = [job EXCEPT ![j].worker = w]
    /\ events' = [events EXCEPT ![j] =
                    job_event_append(@, job[j], "control", "assigned")]
    /\ evlog' = [evlog EXCEPT ![j] =
                    LogAppend(@, events[j], job[j], "control", "assigned")]

\* worker_bootstrap consumes the bootstrap secret; a worker that was made
\* for a leased job takes that job, and the lease is consumed.
WorkerBootstrap(w) ==
    /\ worker[w].created
    /\ ~worker[w].token
    /\ ~worker[w].deleted
    /\ worker' = [worker EXCEPT ![w].token = TRUE, ![w].wait_for = 0]
    /\ LET j == worker[w].wait_for
       IN  IF /\ j # 0
              /\ Queued(j)
              /\ ~job[j].cancelled
              /\ job[j].target = worker[w].target
              /\ ~worker[w].recycle
           THEN /\ Assign(j, w)
                /\ leases' = {l \in leases : l.job # j}
           ELSE UNCHANGED <<job, events, evlog, leases>>
    /\ resp' = NoResp
    /\ UNCHANGED <<now, files, chunks, jobfile, blob, ledger>>
    /\ UNCHANGED cold_vars

\* factory_worker_destroy: the worker is marked deleted; a job it had not
\* completed goes back to the queue and the lease is cleared.
FactoryWorkerDestroy(f, w) ==
    /\ worker[w].created
    /\ worker[w].factory = f
    /\ ~worker[w].deleted
    /\ worker' = [worker EXCEPT ![w].deleted = TRUE, ![w].wait_for = 0]
    /\ job' = [j \in JobIds |->
                IF job[j].created /\ job[j].worker = w /\ ~job[j].complete
                THEN [job[j] EXCEPT !.worker = 0]
                ELSE job[j]]
    /\ leases' = {l \in leases :
                    ~(l.factory = f /\
                      (l.job \in JobsOf(w) \/ l.job = worker[w].wait_for))}
    /\ resp' = NoResp
    /\ UNCHANGED <<events, now, files, chunks, jobfile, blob, evlog, ledger>>
    /\ UNCHANGED cold_vars

WorkerRecycle(w) ==
    /\ worker[w].created
    /\ ~worker[w].deleted
    /\ ~worker[w].recycle
    /\ worker' = [worker EXCEPT ![w].recycle = TRUE]
    /\ resp' = NoResp
    /\ UNCHANGED <<job, events, leases, now, files, chunks, jobfile, blob,
                   evlog, ledger>>
    /\ UNCHANGED cold_vars

\* A worker that the worker API authenticates.
Authed(w) == worker[w].created /\ worker[w].token /\ ~worker[w].deleted

AppendEvent(j, stream, payload) ==
    /\ events' = [events EXCEPT ![j] =
                    job_event_append(@, job[j], stream, payload)]
    /\ evlog' = [evlog EXCEPT ![j] =
                    LogAppend(@, events[j], job[j], stream, payload)]

WorkerAppend(w, j, payload) ==
    /\ Authed(w)
    /\ j \in JobsOf(w)
    /\ Len(evlog[j]) < MaxEvents
    /\ AppendEvent(j, "stdout", payload)
    /\ resp' = NoResp
    /\ UNCHANGED <<job, worker, leases, now, files, chunks, jobfile, blob,
                   ledger>>
    /\ UNCHANGED cold_vars

FactoryWorkerAppend(f, w, j, payload) ==
    /\ worker[w].created
    /\ worker[w].factory = f
    /\ j \in JobsOf(w)
    /\ Len(evlog[j]) < MaxEvents
    /\ AppendEvent(j, "worker", payload)
    /\ resp' = NoResp
    /\ UNCHANGED <<job, worker, leases, now, files, chunks, jobfile, blob,
                   ledger>>
    /\ UNCHANGED cold_vars

WorkerAddOutput(w, j, path) ==
    /\ Authed(w)
    /\ j \in JobsOf(w)
    /\ path \notin {o.path : o \in job[j].outputs}
    /\ LET id == Cardinality(jobfile[j]) + 1
       IN  /\ jobfile' = [jobfile EXCEPT ![j] = @ \cup
                {[id |-> id, size |-> 1, bytes |-> <<7>>, commit |-> ""]}]
           /\ job' = [job EXCEPT ![j].outputs = @ \cup
                {[path |-> path, file |-> <<j, id>>]}]
           /\ staged' = [staged EXCEPT ![j] = @ \cup
                {[id |-> id, bytes |-> <<7>>]}]
    /\ resp' = NoResp
    /\ UNCHANGED <<events, worker, leases, now, files, chunks, blob, evlog,
                   ledger>>
    /\ UNCHANGED <<cache, object, jobstore, user,
                   targets, published,
                   delivery, webhook, dblock, ext_vars>>

\* worker_job_complete: the worker held the job when the handler loaded it;
\* a request that races with another completion arrives after it.
WorkerJobComplete(w, j, failed) ==
    /\ worker[w].created
    /\ worker[w].token
    /\ job[j].created
    /\ \/ Authed(w) /\ j \in JobsOf(w)
       \/ job[j].complete /\ \E e \in Range(evlog[j]) : e.payload = "assigned"
    /\ resp' = Done("worker_job_complete", j,
                    complete_job_res(files[j], job[j]))
    /\ job' = [job EXCEPT ![j] = complete_job_row(files[j], @, failed)]
    /\ files' = [files EXCEPT ![j] = complete_job_files(@)]
    /\ UNCHANGED <<events, worker, leases, now, chunks, jobfile, blob, evlog,
                   ledger>>
    /\ UNCHANGED cold_vars

(***************************************************************************)
(* The assignment loop, one transaction per step.                          *)
(***************************************************************************)
DepDue(d) == ~d.satisfied /\ job[d.prior].complete

DepPermitted(d) ==
    IF job[d.prior].failed THEN d.on_failed ELSE d.on_completed

\* The outputs of the prior job, staged as inputs by reference.
Staged(d) ==
    IF d.copy_outputs
    THEN {[name |-> o.path, file |-> o.file] : o \in job[d.prior].outputs}
    ELSE {}

\* A waiting job whose prior jobs have completed: a terminal state that a
\* dependency does not permit fails the job; otherwise the dependencies are
\* satisfied, outputs are staged, and the job leaves waiting when ready.
DependencyStep(j) ==
    /\ job[j].created
    /\ job[j].waiting
    /\ ~job[j].complete
    /\ \E d \in job[j].deps : DepDue(d)
    /\ LET due == {d \in job[j].deps : DepDue(d)}
           bad == {d \in due : ~DepPermitted(d)}
           met == [job[j] EXCEPT
                    !.deps = {IF d \in due
                              THEN [d EXCEPT !.satisfied = TRUE]
                              ELSE d : d \in job[j].deps},
                    !.inputs = @ \cup UNION {Staged(d) : d \in due}]
       IN  IF bad # {}
           THEN /\ mark_job_completed_ok(files[j])
                /\ AppendEvent(j, "control", "dependency failed")
                /\ job' = [job EXCEPT ![j] =
                            complete_job_row(files[j], @, TRUE)]
                /\ files' = [files EXCEPT ![j] = complete_job_files(@)]
           ELSE /\ job' = [job EXCEPT ![j] =
                            [met EXCEPT !.waiting = ~Ready(met)]]
                /\ UNCHANGED <<events, evlog, files>>
    /\ resp' = NoResp
    /\ UNCHANGED <<worker, leases, now, chunks, jobfile, blob, ledger>>
    /\ UNCHANGED cold_vars

\* Worker w may be given queued job j: the worker is idle, of the job's
\* resolved target, and no other factory holds a lease on the job.
CanTake(j, w) ==
    /\ Queued(j)
    /\ ~job[j].cancelled
    /\ Idle(w)
    /\ worker[w].target = job[j].target
    /\ \A l \in leases : l.job = j => l.factory = worker[w].factory

\* Queued jobs are served in id order.
AssignStep(j, w) ==
    /\ CanTake(j, w)
    /\ \A j2 \in JobIds : j2 < j => \A w2 \in WorkerIds : ~CanTake(j2, w2)
    /\ Assign(j, w)
    /\ resp' = NoResp
    /\ UNCHANGED <<worker, leases, now, files, chunks, jobfile, blob, ledger>>
    /\ UNCHANGED cold_vars

ExpireLeases ==
    /\ \E l \in leases : l.expires <= now
    /\ leases' = {l \in leases : l.expires > now}
    /\ resp' = NoResp
    /\ UNCHANGED <<job, events, worker, now, files, chunks, jobfile, blob,
                   evlog, ledger>>
    /\ UNCHANGED cold_vars

Tick ==
    /\ now < MaxTime
    /\ now' = now + 1
    /\ resp' = NoResp
    /\ UNCHANGED <<job, events, worker, leases, files, chunks, jobfile, blob,
                   evlog, ledger>>
    /\ UNCHANGED cold_vars

(***************************************************************************)
(* The archiver: the document is stored, the job is marked archived and    *)
(* its event rows are purged.                                              *)
(***************************************************************************)
ArchiveJob(j) ==
    /\ job[j].created
    /\ job[j].complete
    /\ ~job[j].archived
    /\ blob' = [blob EXCEPT ![j] =
                [stored |-> TRUE, form |-> "good", events |-> events[j],
                 outputs |-> job[j].outputs, store |-> jobstore[j]]]
    /\ cache' = [cache EXCEPT ![j] = blob'[j]]
    /\ jobstore' = [jobstore EXCEPT ![j] = {}]
    /\ job' = [job EXCEPT ![j].archived = TRUE]
    /\ events' = [events EXCEPT ![j] = {}]
    /\ resp' = NoResp
    /\ UNCHANGED <<worker, leases, now, files, chunks, jobfile, evlog,
                   ledger>>
    /\ UNCHANGED <<staged, object, user,
                   targets, published,
                   delivery, webhook, dblock, ext_vars>>

\* job_store_put: refused for a job that was complete when it was loaded.
JobStorePut(j, loaded_complete, name, value, secret) ==
    /\ job[j].created
    /\ loaded_complete \in LoadedComplete(j)
    /\ IF loaded_complete
       THEN /\ resp' = Done("job_store_put", j, "409")
            /\ UNCHANGED jobstore
       ELSE /\ jobstore' = [jobstore EXCEPT ![j] =
                    job_store_put(@, name, value, secret, "user")]
            /\ resp' = Done("job_store_put", j, "204")
    /\ UNCHANGED <<job, events, worker, leases, now, files, chunks, jobfile,
                   blob, evlog, ledger, cache, staged, object, user,
                   targets, published,
                   delivery, webhook, dblock, ext_vars>>

LoadedArchived(j) == IF job[j].archived THEN BOOLEAN ELSE {FALSE}

JobStoreGetAll(j, loaded_archived) ==
    /\ job[j].created
    /\ loaded_archived \in LoadedArchived(j)
    /\ resp' = [op |-> "job_store_get_all", job |-> j, res |-> "200",
                arg |-> job_store_get_all(loaded_archived, jobstore[j],
                                          blob[j])]
    /\ UNCHANGED <<job, events, worker, leases, now, files, chunks, jobfile,
                   blob, evlog, ledger>>
    /\ UNCHANGED cold_vars

\* AuthUser::has_privilege
has_privilege(u, priv) == priv \in u.privs

\* db::user_auth: the user of a token, if any; a user's token is written
\* as the user's name.
user_auth(users, token) == {u \in users : u.name = token}

\* db::user_ensure: the user of the name, made without privileges if there
\* is none.
user_ensure(users, name) ==
    IF \E u \in users : u.name = name
    THEN users
    ELSE users \cup {[name |-> name, privs |-> {}]}

\* Central::_int_delegate_username: the trimmed value of the header
\* x-buildomat-delegate; a header whose value is not a string of visible
\* ASCII counts as no header.
NoHeader == [present |-> FALSE, readable |-> FALSE, value |-> ""]

trim(v) == IF v = " u4 " THEN "u4" ELSE v

delegate_username(h) ==
    IF h.present /\ h.readable THEN {trim(h.value)} ELSE {}

\* Central::require_user: "401", or the user the request acts as.
require_user_res(users, token, h) ==
    IF user_auth(users, token) = {}
    THEN "401"
    ELSE LET u == CHOOSE u \in user_auth(users, token) : TRUE
         IN  IF delegate_username(h) = {}
             THEN "ok"
             ELSE IF has_privilege(u, "delegate") THEN "ok" ELSE "401"

require_user_table(users, token, h) ==
    IF require_user_res(users, token, h) = "ok" /\ delegate_username(h) # {}
    THEN user_ensure(users, CHOOSE n \in delegate_username(h) : TRUE)
    ELSE users

require_user_name(users, token, h) ==
    IF delegate_username(h) = {}
    THEN token
    ELSE CHOOSE n \in delegate_username(h) : TRUE

\* Central::load_job_for_user: the owner of the job and a holder of
\* admin.job.read are given the job, any other user is answered 403.
load_job_for_user_any(u, jr) == TRUE

load_job_for_user(u, jr) ==
    jr.owner = u.name \/ has_privilege(u, "admin.job.read")

Forbidden(op, j) ==
    /\ resp' = Done(op, j, "403")
    /\ UNCHANGED <<job, events, worker, leases, now, files, chunks, jobfile,
                   blob, evlog, ledger>>
    /\ UNCHANGED cold_vars

\* The archive-files task, one file of a complete job at a time: the staged
\* file is uploaded, and once the upload is confirmed it is unlinked.
ArchiveFileUpload(j, id) ==
    /\ job[j].complete
    /\ FileOf(staged[j], id) # {}
    /\ FileOf(object[j], id) = {}
    /\ object' = [object EXCEPT ![j] = @ \cup FileOf(staged[j], id)]
    /\ resp' = NoResp
    /\ UNCHANGED <<job, events, worker, leases, now, files, chunks, jobfile,
                   blob, evlog, ledger, cache, staged, jobstore, user,
                   targets, published,
                   delivery, webhook, dblock, ext_vars>>

ArchiveFileUnlink(j, id) ==
    /\ job[j].complete
    /\ FileOf(staged[j], id) # {}
    /\ FileOf(object[j], id) # {}
    /\ staged' = [staged EXCEPT ![j] = @ \ FileOf(staged[j], id)]
    /\ resp' = NoResp
    /\ UNCHANGED <<job, events, worker, leases, now, files, chunks, jobfile,
                   blob, evlog, ledger, cache, object, jobstore, user,
                   targets, published,
                   delivery, webhook, dblock, ext_vars>>

\* What is_file may have told a download that is about to open the file:
\* the file is there, or it was there and has been unlinked since.
SeenLocal(j, id) ==
    IF FileOf(staged[j], id) # {}
    THEN {TRUE}
    ELSE IF FileOf(object[j], id) # {} THEN BOOLEAN ELSE {FALSE}

\* job_output_download: the output record is loaded, then the file is
\* served by file_response.
JobOutputDownload(j, id, is_file) ==
    /\ job[j].created
    /\ is_file \in SeenLocal(j, id)
    /\ resp' =
        IF load_job_output(job[j], blob[j], <<j, id>>) = {}
        THEN Done("job_output_download", j, "500")
        ELSE LET fr == file_response(is_file, staged[j], object[j], id)
             IN  [op |-> "job_output_download", job |-> j,
                  res |-> IF fr.res = "ok" THEN "200" ELSE "500",
                  arg |-> fr]
    /\ UNCHANGED <<job, events, worker, leases, now, files, chunks, jobfile,
                   blob, evlog, ledger>>
    /\ UNCHANGED cold_vars

\* job_output_signed_url: a URL of the object of the output, for at most
\* an hour.
MaxExpirySeconds == 3600

JobOutputSignedUrl(j, id, expiry_seconds) ==
    /\ job[j].created
    /\ resp' =
        IF expiry_seconds > MaxExpirySeconds
        THEN Done("job_output_signed_url", j, "400")
        ELSE IF load_job_output(job[j], blob[j], <<j, id>>) = {}
        THEN Done("job_output_signed_url", j, "500")
        ELSE [op |-> "job_output_signed_url", job |-> j, res |-> "200",
              arg |-> [url |-> <<"output", j, id>>]]
    /\ UNCHANGED <<job, events, worker, leases, now, files, chunks, jobfile,
                   blob, evlog, ledger>>
    /\ UNCHANGED cold_vars

(***************************************************************************)
(* The job lifecycle: submission, inputs, dependencies, assignment,        *)
(* completion, cancellation, worker destruction and archiving, with one    *)
(* factory and one worker.                                                 *)
(***************************************************************************)
NoWorkers == \A w \in WorkerIds : ~worker[w].created

Next ==
    \/ \E t \in {"old", "nope"}, i \in SUBSET InputNames, d \in DependSets :
        JobSubmit(t, i, d)
    \/ \E j \in JobIds, lc \in BOOLEAN : JobCancel(j, lc)
    \/ \E j \in JobIds, lw \in BOOLEAN, k \in CommitIds, n \in InputNames :
        JobAddInput(j, lw, k, n, 0, <<>>)
    \/ \E j \in JobIds, k \in CommitIds : FilesWorker(j, k)
    \/ NoWorkers /\ FactoryWorkerCreate("f1", "t1", 0)
    \/ \E w \in WorkerIds : WorkerBootstrap(w)
    \/ \E w \in WorkerIds : FactoryWorkerDestroy("f1", w)
    \/ \E w \in WorkerIds, j \in JobIds, p \in OutputPaths :
        WorkerAddOutput(w, j, p)
    \/ \E w \in WorkerIds, j \in JobIds, failed \in BOOLEAN :
        WorkerJobComplete(w, j, failed)
    \/ \E j \in JobIds : DependencyStep(j)
    \/ \E j \in JobIds, w \in WorkerIds : AssignStep(j, w)
    \/ \E j \in JobIds : ArchiveJob(j)

Spec == Init /\ [][Next]_vars

(***************************************************************************)
(* The lease protocol: two factories lease, renew and lose leases on jobs  *)
(* of two targets and make workers for them, while the assignment loop     *)
(* runs and the clock advances.                                            *)
(***************************************************************************)
NextLease ==
    \/ \E t \in {"old", "t2"} : JobSubmit(t, {}, {})
    \/ \E f \in Factories, t \in {"t1", "t2"}, ttl \in 1..MaxTtl :
        FactoryLease(f, t, ttl)
    \/ \E f \in Factories, j \in JobIds, ttl \in 1..MaxTtl :
        FactoryLeaseRenew(f, j, ttl)
    \/ \E f \in Factories, t \in {"t1", "t2"}, j \in {0} \cup JobIds :
        FactoryWorkerCreate(f, t, j)
    \/ \E w \in WorkerIds : WorkerBootstrap(w)
    \/ \E f \in Factories, w \in WorkerIds : FactoryWorkerDestroy(f, w)
    \/ \E w \in WorkerIds : WorkerRecycle(w)
    \/ \E w \in WorkerIds, j \in JobIds : WorkerJobComplete(w, j, FALSE)
    \/ \E j \in JobIds, w \in WorkerIds : AssignStep(j, w)
    \/ ExpireLeases
    \/ Tick

SpecLease == Init /\ [][NextLease]_vars

(***************************************************************************)
(* The event stream: workers, factories and the control plane append       *)
(* events to jobs that are assigned, reassigned, completed and archived.   *)
(***************************************************************************)
Payloads == {"a", "b"}

NextEvents ==
    \/ JobSubmit("t1", {}, {})
    \/ FactoryWorkerCreate("f1", "t1", 0)
    \/ \E w \in WorkerIds : WorkerBootstrap(w)
    \/ \E w \in WorkerIds : FactoryWorkerDestroy("f1", w)
    \/ \E j \in JobIds, w \in WorkerIds : AssignStep(j, w)
    \/ \E w \in WorkerIds, j \in JobIds, p \in Payloads :
        WorkerAppend(w, j, p)
    \/ \E w \in WorkerIds, j \in JobIds :
        FactoryWorkerAppend("f1", w, j, "boot")
    \/ \E w \in WorkerIds, j \in JobIds : WorkerJobComplete(w, j, FALSE)
    \/ \E j \in JobIds : ArchiveJob(j)

SpecEvents == Init /\ [][NextEvents]_vars

(***************************************************************************)
(* Input upload: chunks are written and committed, with repeated and       *)
(* altered commit requests, around the completion of the job.              *)
(***************************************************************************)
NextFiles ==
    \/ Created = {} /\ JobSubmit("t1", InputNames, {})
    \/ \E j \in JobIds, lw \in BOOLEAN, d \in ChunkData :
        JobUploadChunk(j, lw, d)
    \/ \E j \in JobIds, lw \in BOOLEAN, k \in CommitIds,
          n \in InputNames \cup PathNames, sz \in Sizes, cl \in ChunkLists :
        JobAddInput(j, lw, k, n, sz, cl)
    \/ \E j \in JobIds, lw \in BOOLEAN, n \in InputNames \cup PathNames,
          sz \in Sizes, cl \in ChunkLists :
        JobAddInputSync(j, lw, n, sz, cl)
    \/ \E j \in JobIds, k \in CommitIds : FilesWorker(j, k)
    \/ NoWorkers /\ FactoryWorkerCreate("f1", "t1", 0)
    \/ \E w \in WorkerIds : WorkerBootstrap(w)
    \/ \E j \in JobIds, w \in WorkerIds : AssignStep(j, w)
    \/ \E w \in WorkerIds, j \in JobIds : WorkerJobComplete(w, j, FALSE)

SpecFiles == Init /\ [][NextFiles]_vars

(***************************************************************************)
(* Output files: workers add outputs, the archive tasks upload and unlink  *)
(* the files and archive the jobs, and users download the outputs.         *)
(***************************************************************************)
FileIds == 1..MaxJobs

NextOutputs ==
    \/ JobSubmit("t1", {}, {})
    \/ NoWorkers /\ FactoryWorkerCreate("f1", "t1", 0)
    \/ \E w \in WorkerIds : WorkerBootstrap(w)
    \/ \E j \in JobIds, w \in WorkerIds : AssignStep(j, w)
    \/ \E w \in WorkerIds, j \in JobIds, p \in OutputPaths :
        WorkerAddOutput(w, j, p)
    \/ \E w \in WorkerIds, j \in JobIds : WorkerJobComplete(w, j, FALSE)
    \/ \E j \in JobIds, id \in FileIds : ArchiveFileUpload(j, id)
    \/ \E j \in JobIds, id \in FileIds : ArchiveFileUnlink(j, id)
    \/ \E j \in JobIds : ArchiveJob(j)
    \/ \E j \in JobIds, id \in FileIds, sl \in BOOLEAN :
        JobOutputDownload(j, id, sl)

SpecOutputs == Init /\ [][NextOutputs]_vars

(***************************************************************************)
(* The job store: users put plain and secret values, jobs end and are      *)
(* archived, and users read the store.                                     *)
(***************************************************************************)
StoreNames == {"n1"}
StoreValues == {"v1", "v2"}

NextStore ==
    \/ JobSubmit("t1", {}, {})
    \/ \E j \in JobIds, lc \in BOOLEAN, n \in StoreNames,
          v \in StoreValues, sec \in BOOLEAN :
        JobStorePut(j, lc, n, v, sec)
    \/ \E j \in JobIds : JobCancel(j, FALSE)
    \/ \E j \in JobIds : ArchiveJob(j)
    \/ \E j \in JobIds, la \in BOOLEAN : JobStoreGetAll(j, la)

SpecStore == Init /\ [][NextStore]_vars

(***************************************************************************)
(* Reads of archived jobs: the cache file and the stored object of each    *)
(* job are found in every form, and documents are loaded.                  *)
(***************************************************************************)
ArchivedRow ==
    [NoJob EXCEPT !.created = TRUE, !.target = "t1", !.complete = TRUE,
                  !.archived = TRUE]

DocEvents ==
    {[seq |-> 0, stream |-> "control", payload |-> "assigned"]}

Docs ==
    {[stored |-> TRUE, form |-> f, events |-> DocEvents, outputs |-> {},
      store |-> {}] : f \in {"good", "stale", "junk"}}

InitArchive ==
    /\ job = [j \in JobIds |-> ArchivedRow]
    /\ events = [j \in JobIds |-> {}]
    /\ worker = [w \in WorkerIds |-> NoWorker]
    /\ leases = {}
    /\ now = 0
    /\ files = [j \in JobIds |-> NoFiles]
    /\ chunks = [j \in JobIds |-> <<>>]
    /\ jobfile = [j \in JobIds |-> {}]
    /\ blob \in [JobIds -> Docs \cup {NoBlob}]
    /\ resp = NoResp
    /\ evlog = [j \in JobIds |-> <<>>]
    /\ ledger = [j \in JobIds |-> [k \in CommitIds |-> NoCommit]]
    /\ cache \in [JobIds -> Docs \cup {NoBlob}]
    /\ staged = [j \in JobIds |-> {}]
    /\ object = [j \in JobIds |-> {}]
    /\ jobstore = [j \in JobIds |-> {}]
    /\ user = {}
    /\ targets = Targets
    /\ published = {}
    /\ delivery = <<>>
    /\ webhook = [r \in RequestIds |-> NoRequest]
    /\ dblock = FALSE
    /\ InitExt

\* A read of an archived job calls archive_load.
ArchiveLoad(j) ==
    /\ job[j].archived
    /\ resp' = [op |-> "archive_load", job |-> j,
                res |-> archive_load_res(cache[j], blob[j]),
                arg |-> archive_load_doc(cache[j], blob[j])]
    /\ cache' = [cache EXCEPT ![j] = archive_load_cache(cache[j], blob[j])]
    /\ UNCHANGED <<job, events, worker, leases, now, files, chunks, jobfile,
                   blob, evlog, ledger, staged, object, jobstore, user,
                   targets, published,
                   delivery, webhook, dblock, ext_vars>>

NextArchive == \E j \in JobIds : ArchiveLoad(j)

SpecArchive == InitArchive /\ [][NextArchive]_vars

(***************************************************************************)
(* The state string: job rows of every combination of flags are rendered.  *)
(***************************************************************************)
JobRows ==
    { [NoJob EXCEPT !.created = TRUE, !.target = "t1", !.failed = f,
                    !.complete = c, !.worker = w, !.waiting = wt,
                    !.cancelled = x, !.archived = a] :
        f \in BOOLEAN, c \in BOOLEAN, w \in {0} \cup WorkerIds,
        wt \in BOOLEAN, x \in BOOLEAN, a \in BOOLEAN }

InitState ==
    /\ job \in [JobIds -> JobRows \cup {NoJob}]
    /\ job[1] # NoJob
    /\ \A j \in JobIds : j > 1 => job[j] = NoJob
    /\ events = [j \in JobIds |-> {}]
    /\ worker = [w \in WorkerIds |-> NoWorker]
    /\ leases = {}
    /\ now = 0
    /\ files = [j \in JobIds |-> NoFiles]
    /\ chunks = [j \in JobIds |-> <<>>]
    /\ jobfile = [j \in JobIds |-> {}]
    /\ blob = [j \in JobIds |-> NoBlob]
    /\ resp = NoResp
    /\ evlog = [j \in JobIds |-> <<>>]
    /\ ledger = [j \in JobIds |-> [k \in CommitIds |-> NoCommit]]
    /\ cache = [j \in JobIds |-> NoBlob]
    /\ staged = [j \in JobIds |-> {}]
    /\ object = [j \in JobIds |-> {}]
    /\ jobstore = [j \in JobIds |-> {}]
    /\ user = {}
    /\ targets = Targets
    /\ published = {}
    /\ delivery = <<>>
    /\ webhook = [r \in RequestIds |-> NoRequest]
    /\ dblock = FALSE
    /\ InitExt

\* job_get: the job is loaded and its state is rendered.
JobGet(j) ==
    /\ job[j].created
    /\ resp' = Done("job_get", j, format_job_state(job[j]))
    /\ UNCHANGED <<job, events, worker, leases, now, files, chunks, jobfile,
                   blob, evlog, ledger>>
    /\ UNCHANGED cold_vars

NextState == \E j \in JobIds : JobGet(j)

SpecState == InitState /\ [][NextState]_vars

(***************************************************************************)
(* Authentication: requests with any token and any delegation header, to   *)
(* a user table of any users.                                              *)
(***************************************************************************)
Tokens == {"u1", "u2", "u9"}

Headers ==
    {NoHeader} \cup
    {[present |-> TRUE, readable |-> r, value |-> v] :
        r \in BOOLEAN, v \in {"u1", "u4", " u4 ", "u5"}}

KnownUsers ==
    {[name |-> n, privs |-> p] :
        n \in {"u1", "u2"}, p \in SUBSET {"delegate", "admin.job.read"}}

InitAuth ==
    /\ job = [j \in JobIds |-> NoJob]
    /\ events = [j \in JobIds |-> {}]
    /\ worker = [w \in WorkerIds |-> NoWorker]
    /\ leases = {}
    /\ now = 0
    /\ files = [j \in JobIds |-> NoFiles]
    /\ chunks = [j \in JobIds |-> <<>>]
    /\ jobfile = [j \in JobIds |-> {}]
    /\ blob = [j \in JobIds |-> NoBlob]
    /\ resp = NoResp
    /\ evlog = [j \in JobIds |-> <<>>]
    /\ ledger = [j \in JobIds |-> [k \in CommitIds |-> NoCommit]]
    /\ cache = [j \in JobIds |-> NoBlob]
    /\ staged = [j \in JobIds |-> {}]
    /\ object = [j \in JobIds |-> {}]
    /\ jobstore = [j \in JobIds |-> {}]
    /\ user \in {T \in SUBSET KnownUsers :
                    \A u1, u2 \in T : u1.name = u2.name => u1 = u2}
    /\ targets = Targets
    /\ published = {}
    /\ delivery = <<>>
    /\ webhook = [r \in RequestIds |-> NoRequest]
    /\ dblock = FALSE
    /\ InitExt

\* whoami: the request is authenticated and answered with the user it
\* acts as.
Whoami(token, h) ==
    /\ resp' = [op |-> "whoami", job |-> 0,
                res |-> require_user_res(user, token, h),
                arg |-> IF require_user_res(user, token, h) = "ok"
                        THEN require_user_name(user, token, h)
                        ELSE ""]
    /\ user' = require_user_table(user, token, h)
    /\ UNCHANGED <<job, events, worker, leases, now, files, chunks, jobfile,
                   blob, evlog, ledger, cache, staged, object, jobstore,
                   targets, published,
                   delivery, webhook, dblock, ext_vars>>

NextAuth == \E t \in Tokens, h \in Headers : Whoami(t, h)

SpecAuth == InitAuth /\ [][NextAuth]_vars

(***************************************************************************)
(* Access to jobs: a job of any owner, and requests to every job-scoped    *)
(* endpoint from its owner, from another user and from a holder of         *)
(* admin.job.read.                                                         *)
(***************************************************************************)
\* A handler of a job-scoped endpoint: the user is authenticated, the job
\* is loaded for the user, and the handler goes on with the job.
ForUser(u, j, op, Handler) ==
    /\ u \in user
    /\ job[j].created
    /\ IF load_job_for_user(u, job[j]) THEN Handler ELSE Forbidden(op, j)

JobGetFor(u, j) == ForUser(u, j, "job_get", JobGet(j))

JobCancelFor(u, j, lc) == ForUser(u, j, "job_cancel", JobCancel(j, lc))

JobUploadChunkFor(u, j, lw, d) ==
    ForUser(u, j, "job_upload_chunk", JobUploadChunk(j, lw, d))

\* job_add_input checks the name and the size before it loads the job.
JobAddInputFor(u, j, lw, k, n, sz, cl) ==
    /\ u \in user
    /\ IF contains_slash(n) \/ sz > MaxBytesPerInput
       THEN JobAddInput(j, lw, k, n, sz, cl)
       ELSE ForUser(u, j, "job_add_input", JobAddInput(j, lw, k, n, sz, cl))

JobAddInputSyncFor(u, j, lw, n, sz, cl) ==
    ForUser(u, j, "job_add_input_sync", JobAddInputSync(j, lw, n, sz, cl))

JobStorePutFor(u, j, lc, n, v, sec) ==
    ForUser(u, j, "job_store_put", JobStorePut(j, lc, n, v, sec))

JobStoreGetAllFor(u, j, la) ==
    ForUser(u, j, "job_store_get_all", JobStoreGetAll(j, la))

JobOutputDownloadFor(u, j, id, sl) ==
    ForUser(u, j, "job_output_download", JobOutputDownload(j, id, sl))

\* job_output_signed_url checks the expiry before it loads the job.
JobOutputSignedUrlFor(u, j, id, expiry_seconds) ==
    /\ u \in user
    /\ IF expiry_seconds > MaxExpirySeconds
       THEN JobOutputSignedUrl(j, id, expiry_seconds)
       ELSE ForUser(u, j, "job_output_signed_url",
                    JobOutputSignedUrl(j, id, expiry_seconds))

Expiries == {MaxExpirySeconds, MaxExpirySeconds + 1}

UserTable ==
    {[name |-> "u1", privs |-> {}], [name |-> "u2", privs |-> {}],
     [name |-> "u3", privs |-> {"admin.job.read"}]}

AccessRows ==
    {job_create(o, "t1", i, {}) : o \in {"u1", "u2"}, i \in SUBSET InputNames}

InitAccess ==
    /\ job \in [JobIds -> AccessRows \cup {NoJob}]
    /\ job[1] # NoJob
    /\ \A j \in JobIds : j > 1 => job[j] = NoJob
    /\ events = [j \in JobIds |-> {}]
    /\ worker = [w \in WorkerIds |-> NoWorker]
    /\ leases = {}
    /\ now = 0
    /\ files = [j \in JobIds |-> NoFiles]
    /\ chunks = [j \in JobIds |-> <<>>]
    /\ jobfile = [j \in JobIds |-> {}]
    /\ blob = [j \in JobIds |-> NoBlob]
    /\ resp = NoResp
    /\ evlog = [j \in JobIds |-> <<>>]
    /\ ledger = [j \in JobIds |-> [k \in CommitIds |-> NoCommit]]
    /\ cache = [j \in JobIds |-> NoBlob]
    /\ staged = [j \in JobIds |-> {}]
    /\ object = [j \in JobIds |-> {}]
    /\ jobstore = [j \in JobIds |-> {}]
    /\ user = UserTable
    /\ targets = Targets
    /\ published = {}
    /\ delivery = <<>>
    /\ webhook = [r \in RequestIds |-> NoRequest]
    /\ dblock = FALSE
    /\ InitExt

NextAccess ==
    \/ \E u \in user, j \in JobIds : JobGetFor(u, j)
    \/ \E u \in user, j \in JobIds, lc \in BOOLEAN : JobCancelFor(u, j, lc)
    \/ \E u \in user, j \in JobIds, lw \in BOOLEAN, d \in ChunkData :
        JobUploadChunkFor(u, j, lw, d)
    \/ \E u \in user, j \in JobIds, lw \in BOOLEAN, k \in CommitIds,
          n \in InputNames \cup PathNames, cl \in ChunkLists :
        JobAddInputFor(u, j, lw, k, n, 1, cl)
    \/ \E u \in user, j \in JobIds, lw \in BOOLEAN, n \in InputNames,
          cl \in ChunkLists :
        JobAddInputSyncFor(u, j, lw, n, 1, cl)
    \/ \E u \in user, j \in JobIds, lc \in BOOLEAN, n \in StoreNames,
          sec \in BOOLEAN :
        JobStorePutFor(u, j, lc, n, "v1", sec)
    \/ \E u \in user, j \in JobIds, la \in BOOLEAN :
        JobStoreGetAllFor(u, j, la)
    \/ \E u \in user, j \in JobIds, id \in FileIds, sl \in BOOLEAN :
        JobOutputDownloadFor(u, j, id, sl)
    \/ \E u \in user, j \in JobIds, id \in FileIds, ex \in Expiries :
        JobOutputSignedUrlFor(u, j, id, ex)

SpecAccess == InitAccess /\ [][NextAccess]_vars

(***************************************************************************)
(* The target table under the administrator's operations: targets are      *)
(* created, renamed and given a required privilege, and names are          *)
(* resolved.                                                               *)
(***************************************************************************)
MaxTargets == 5

TargetNames == {"t1", "t2", "old", "gold", "nope"}
FreshTargetIds == {"t3", "t4", "t5", "t6"}
Privileges == {"none", "use.gold"}

\* The id that the next new row gets.
NewTargetId == CHOOSE i \in FreshTargetIds : \A t \in targets : t.id # i

AdminUnchanged ==
    UNCHANGED <<job, events, worker, leases, now, files, chunks, jobfile,
                blob, evlog, ledger, cache, staged, object, jobstore,
                published, delivery, webhook, dblock, ext_vars>>

TargetCreate(name, privilege) ==
    /\ Cardinality(targets) < MaxTargets
    /\ IF \E t \in targets : t.name = name
       THEN /\ resp' = Done("target_create", 0, "err")
            /\ UNCHANGED targets
       ELSE /\ targets' = target_create(targets, NewTargetId, name, privilege)
            /\ resp' = Done("target_create", 0, "201")
    /\ UNCHANGED user
    /\ AdminUnchanged

TargetRequirePrivilege(id, privilege) ==
    /\ IF target_by_id(targets, id) = NoTarget
       THEN /\ resp' = Done("target_require_privilege", 0, "err")
            /\ UNCHANGED targets
       ELSE /\ targets' = target_require_privilege(targets, id, privilege)
            /\ resp' = Done("target_require_privilege", 0, "204")
    /\ UNCHANGED user
    /\ AdminUnchanged

TargetRename(id, new_name) ==
    /\ Cardinality(targets) < MaxTargets
    /\ IF \/ target_by_id(targets, id) = NoTarget
          \/ \E t \in targets : t.name = new_name
       THEN /\ resp' = Done("target_rename", 0, "err")
            /\ UNCHANGED targets
       ELSE /\ targets' = target_rename(targets, id, new_name, NewTargetId)
            /\ resp' = Done("target_rename", 0, "200")
    /\ UNCHANGED user
    /\ AdminUnchanged

\* A name is resolved, as job_submit does for the target it is asked for.
TargetResolve(name) ==
    /\ resp' = [op |-> "target_resolve", job |-> 0,
                res |-> target_resolve(name), arg |-> name]
    /\ UNCHANGED <<targets, user>>
    /\ AdminUnchanged

NextTargets ==
    \/ \E n \in TargetNames, p \in Privileges : TargetCreate(n, p)
    \/ \E t \in targets, p \in Privileges : TargetRequirePrivilege(t.id, p)
    \/ \E t \in targets, n \in TargetNames : TargetRename(t.id, n)
    \/ \E n \in TargetNames : TargetResolve(n)

SpecTargets == Init /\ [][NextTargets]_vars

(***************************************************************************)
(* parse_output_rule: the output rules of a submission.  The parser reads  *)
(* the sigils of the rule, one character at a time, and then the pattern.  *)
(***************************************************************************)
MaxRuleLen == 4

RuleChars == {"/", "!", "=", "%", "a"}
RuleStrings == UNION {[1..n -> RuleChars] : n \in 0..MaxRuleLen}

ParseStart ==
    [s |-> "Start", rule |-> <<>>, ignore |-> FALSE,
     size_change_ok |-> FALSE, require_match |-> FALSE]

\* One turn of the loop over the characters; "Err" once the parser has
\* returned its error.
parse_output_rule_char(st, c) ==
    CASE st.s = "Start" ->
            IF c = "/" THEN [st EXCEPT !.rule = Append(@, c), !.s = "Rule"]
            ELSE IF c = "!" THEN [st EXCEPT !.ignore = TRUE, !.s = "Slash"]
            ELSE IF c = "="
                 THEN [st EXCEPT !.require_match = TRUE,
                                 !.s = "SlashOrPercent"]
            ELSE IF c = "%"
                 THEN [st EXCEPT !.size_change_ok = TRUE,
                                 !.s = "SlashOrEquals"]
            ELSE [st EXCEPT !.s = "Err"]
      [] st.s = "SlashOrEquals" ->
            IF c = "/" THEN [st EXCEPT !.rule = Append(@, c), !.s = "Rule"]
            ELSE IF c = "="
                 THEN [st EXCEPT !.require_match = TRUE, !.s = "Slash"]
            ELSE [st EXCEPT !.s = "Err"]
      [] st.s = "SlashOrPercent" ->
            IF c = "/" THEN [st EXCEPT !.rule = Append(@, c), !.s = "Rule"]
            ELSE IF c = "%"
                 THEN [st EXCEPT !.size_change_ok = TRUE, !.s = "Slash"]
            ELSE [st EXCEPT !.s = "Err"]
      [] st.s = "Slash" ->
            IF c = "/" THEN [st EXCEPT !.rule = Append(@, c), !.s = "Rule"]
            ELSE [st EXCEPT !.s = "Err"]
      [] st.s = "Rule" -> [st EXCEPT !.rule = Append(@, c)]
      [] OTHER -> st

RECURSIVE parse_output_rule_chars(_, _)
parse_output_rule_chars(st, input) ==
    IF input = <<>>
    THEN st
    ELSE parse_output_rule_chars(parse_output_rule_char(st, Head(input)),
                                 Tail(input))

starts_with_slash_or_empty(rule) == rule = <<>> \/ rule[1] = "/"

starts_with_slash(rule) == rule # <<>> /\ rule[1] = "/"

NoRule ==
    [res |-> "400", rule |-> <<>>, ignore |-> FALSE,
     require_match |-> FALSE, size_change_ok |-> FALSE]

\* parse_output_rule: the rule and its flags, or 400; "panic" if the
\* assertion about an ignore rule fails.
parse_output_rule(input) ==
    LET st == parse_output_rule_chars(ParseStart, input)
    IN  IF st.s = "Err" \/ ~starts_with_slash(st.rule)
        THEN NoRule
        ELSE IF st.ignore /\ (st.require_match \/ st.size_change_ok)
        THEN [NoRule EXCEPT !.res = "panic"]
        ELSE [res |-> "ok", rule |-> st.rule, ignore |-> st.ignore,
              require_match |-> st.require_match,
              size_change_ok |-> st.size_change_ok]

\* A request brings one output rule.
RuleInput(input) ==
    [op |-> "output_rule", job |-> 0, res |-> "",
     arg |-> [input |-> input, parsed |-> NoRule]]

InitRules ==
    /\ job = [j \in JobIds |-> NoJob]
    /\ events = [j \in JobIds |-> {}]
    /\ worker = [w \in WorkerIds |-> NoWorker]
    /\ leases = {}
    /\ now = 0
    /\ files = [j \in JobIds |-> NoFiles]
    /\ chunks = [j \in JobIds |-> <<>>]
    /\ jobfile = [j \in JobIds |-> {}]
    /\ blob = [j \in JobIds |-> NoBlob]
    /\ resp \in {RuleInput(input) : input \in RuleStrings}
    /\ evlog = [j \in JobIds |-> <<>>]
    /\ ledger = [j \in JobIds |-> [k \in CommitIds |-> NoCommit]]
    /\ cache = [j \in JobIds |-> NoBlob]
    /\ staged = [j \in JobIds |-> {}]
    /\ object = [j \in JobIds |-> {}]
    /\ jobstore = [j \in JobIds |-> {}]
    /\ user = {}
    /\ targets = Targets
    /\ published = {}
    /\ delivery = <<>>
    /\ webhook = [r \in RequestIds |-> NoRequest]
    /\ dblock = FALSE
    /\ InitExt

\* The output rule of the request is parsed.
ParseOutputRule ==
    /\ resp.op = "output_rule"
    /\ resp' = [op |-> "parse_output_rule", job |-> 0,
                res |-> parse_output_rule(resp.arg.input).res,
                arg |-> [input |-> resp.arg.input,
                         parsed |-> parse_output_rule(resp.arg.input)]]
    /\ UNCHANGED <<job, events, worker, leases, now, files, chunks, jobfile,
                   blob, evlog, ledger>>
    /\ UNCHANGED cold_vars

NextRules == ParseOutputRule

SpecRules == InitRules /\ [][NextRules]_vars

(***************************************************************************)
(* job_submit with the whole body of the request: the limits on tasks,     *)
(* inputs and tags, the tag names, the target and its privilege, and the   *)
(* output rules.                                                           *)
(***************************************************************************)
MaxTasks == 100
MaxInputs == 25
MaxTags == 100
MaxTagBytes == 131072

\* A tag of the request: key tells the names apart, name_ok says that the
\* name is made of the characters [0-9a-z._-], and the lengths are those
\* of the name and of the value in bytes.
Tag(key, name_len, value_len) ==
    [key |-> key, name_len |-> name_len, name_ok |-> TRUE,
     value_len |-> value_len]

TagsOf(n, name_len, value_len) ==
    {Tag(i, name_len, value_len) : i \in 1..n}

\* The bytes of the names and values of the tags, summed over the two
\* halves of the map.
RECURSIVE tag_bytes(_)
tag_bytes(tags) ==
    IF tags = {}
    THEN 0
    ELSE LET lo == Min({t.key : t \in tags})
             hi == Max({t.key : t \in tags})
             mid == (lo + hi) \div 2
         IN  IF lo = hi
             THEN LET t == CHOOSE x \in tags : TRUE
                  IN  t.name_len + t.value_len
             ELSE tag_bytes({t \in tags : t.key <= mid})
                  + tag_bytes({t \in tags : t.key > mid})

tag_name_ok(t) == t.name_len > 0 /\ t.name_ok

TasksOf(n) == [i \in 1..n |-> "task"]

InputsOf(n) == [i \in 1..n |-> <<"i", ToString(i)>>]

\* A request body that passes every check but that of its target.
PlainBody(tname) ==
    [target |-> tname, output_rules |-> <<>>, tasks |-> TasksOf(1),
     inputs |-> <<>>, tags |-> {}, depends |-> {}]

too_many_tag_bytes_ge(tags) == tag_bytes(tags) >= MaxTagBytes

too_many_tag_bytes(tags) == tag_bytes(tags) > MaxTagBytes

target_allowed_any(u, t) == TRUE

\* The user may use the target: it requires no privilege, or one the user
\* holds.
target_allowed(u, t) == t.privilege = "none" \/ has_privilege(u, t.privilege)

\* The answer of job_submit to the body b of user u; "201" stands for the
\* call of job_create.
job_submit_res(u, b) ==
    IF Len(b.tasks) > MaxTasks THEN "400"
    ELSE IF Len(b.inputs) > MaxInputs THEN "400"
    ELSE IF Cardinality(b.tags) > MaxTags THEN "400"
    ELSE IF too_many_tag_bytes(b.tags) THEN "400"
    ELSE IF \E t \in b.tags : ~tag_name_ok(t) THEN "400"
    ELSE IF target_resolve_row(b.target) \in {NoTarget, Diverges} THEN "400"
    ELSE IF ~target_allowed(u, target_resolve_row(b.target)) THEN "403"
    ELSE IF \E i \in 1..Len(b.output_rules) :
                parse_output_rule(b.output_rules[i]).res # "ok"
         THEN "400"
    ELSE "201"

SubmitResponse(id, res, u, b) ==
    [op |-> "job_submit", job |-> id, res |-> res,
     arg |-> [inputs |-> Range(b.inputs), depends |-> b.depends,
              user |-> u.name, body |-> b]]

JobSubmitAs(u, b) ==
    /\ u \in user
    /\ JobIds \ Created # {}
    /\ LET id == Min(JobIds \ Created)
           res == job_submit_res(u, b)
       IN  IF res # "201"
           THEN /\ resp' = SubmitResponse(0, res, u, b)
                /\ UNCHANGED job
           ELSE /\ job' = [job EXCEPT ![id] =
                            job_create(u.name, target_resolve(b.target),
                                       Range(b.inputs), b.depends)]
                /\ resp' = SubmitResponse(id, res, u, b)
    /\ UNCHANGED <<events, worker, leases, now, files, chunks, jobfile, blob,
                   evlog, ledger>>
    /\ UNCHANGED cold_vars

\* user_privilege_grant: the user holds the privilege from now on.
user_privilege_grant(users, name, priv) ==
    {IF u.name = name THEN [u EXCEPT !.privs = @ \cup {priv}] ELSE u :
        u \in users}

UserPrivilegeGrant(name, priv) ==
    /\ \E u \in user : u.name = name
    /\ user' = user_privilege_grant(user, name, priv)
    /\ resp' = [op |-> "user_privilege_grant", job |-> 0, res |-> "204",
                arg |-> [user |-> name, privilege |-> priv]]
    /\ UNCHANGED targets
    /\ AdminUnchanged

\* The empty tables, with the users and the targets given.
InitWith(users, table) ==
    /\ job = [j \in JobIds |-> NoJob]
    /\ events = [j \in JobIds |-> {}]
    /\ worker = [w \in WorkerIds |-> NoWorker]
    /\ leases = {}
    /\ now = 0
    /\ files = [j \in JobIds |-> NoFiles]
    /\ chunks = [j \in JobIds |-> <<>>]
    /\ jobfile = [j \in JobIds |-> {}]
    /\ blob = [j \in JobIds |-> NoBlob]
    /\ resp = NoResp
    /\ evlog = [j \in JobIds |-> <<>>]
    /\ ledger = [j \in JobIds |-> [k \in CommitIds |-> NoCommit]]
    /\ cache = [j \in JobIds |-> NoBlob]
    /\ staged = [j \in JobIds |-> {}]
    /\ object = [j \in JobIds |-> {}]
    /\ jobstore = [j \in JobIds |-> {}]
    /\ user = users
    /\ targets = table
    /\ published = {}
    /\ delivery = <<>>
    /\ webhook = [r \in RequestIds |-> NoRequest]
    /\ dblock = FALSE
    /\ InitExt

(***************************************************************************)
(* Submissions to targets: the administrator creates the target "gold",    *)
(* sets and lifts required privileges and grants them, while users submit  *)
(* jobs to targets that resolve, redirect, require a privilege or do not   *)
(* exist.                                                                  *)
(***************************************************************************)
SubmitUsers == {[name |-> "u1", privs |-> {}], [name |-> "u2", privs |-> {}]}

SubmitBodies ==
    {[PlainBody(t) EXCEPT !.output_rules = r] :
        t \in {"t1", "old", "gold", "nope"},
        r \in {<<>>, << <<"=", "/", "a">> >>, << <<"a">> >>}}

InitSubmit == InitWith(SubmitUsers, Targets)

NextSubmit ==
    \/ \E u \in user, b \in SubmitBodies : JobSubmitAs(u, b)
    \/ TargetCreate("gold", "use.gold")
    \/ \E t \in targets, p \in Privileges : TargetRequirePrivilege(t.id, p)
    \/ \E u \in user : UserPrivilegeGrant(u.name, "use.gold")

SpecSubmit == InitSubmit /\ [][NextSubmit]_vars

(***************************************************************************)
(* Submissions at the limits: bodies with the greatest number of tasks,    *)
(* inputs and tags and the greatest size of tags that are accepted, and    *)
(* with one more.                                                          *)
(***************************************************************************)
LimitTags ==
    {TagsOf(0, 1, 1), TagsOf(MaxTags, 1, 1), TagsOf(MaxTags + 1, 1, 1),
     TagsOf(1, 1, MaxTagBytes - 2), TagsOf(1, 1, MaxTagBytes - 1),
     TagsOf(1, 1, MaxTagBytes), TagsOf(2, 1, (MaxTagBytes \div 2) - 1),
     {Tag(1, 0, 1)}, {[Tag(1, 1, 1) EXCEPT !.name_ok = FALSE]}}

LimitBodies ==
    {[PlainBody("t1") EXCEPT !.tasks = TasksOf(nt), !.inputs = InputsOf(ni),
                             !.tags = tg] :
        nt \in {1, MaxTasks, MaxTasks + 1},
        ni \in {0, MaxInputs, MaxInputs + 1},
        tg \in LimitTags}

NextLimits == \E u \in user, b \in LimitBodies : JobSubmitAs(u, b)

SpecLimits == InitWith(SubmitUsers, Targets) /\ [][NextLimits]_vars

(***************************************************************************)
(* Requests by path: the job id of the path and the commit id of the body  *)
(* are parsed, the job is looked up, and every failure is turned into a    *)
(* response by or_500.                                                     *)
(***************************************************************************)
\* MakeInternalError::or_500 for the kinds of error it is implemented for:
\* a conflict of the database is a 409 with the message of the error, an
\* id that does not decode is a 500 "ID decode error: ...", and every other
\* error is a 500 "internal error: ...".
or_500(kind) ==
    CASE kind = "conflict" -> [res |-> "409", message |-> <<"", kind>>]
      [] kind = "decode" ->
            [res |-> "500", message |-> <<"ID decode error: ", kind>>]
      [] OTHER -> [res |-> "500", message |-> <<"internal error: ", kind>>]

ErrorResponse(op, j, e) ==
    [op |-> op, job |-> j, res |-> e.res,
     arg |-> [inputs |-> {}, depends |-> {}, message |-> e.message]]

\* The job ids that a path may spell: those of the job table and one that
\* no job will ever have.  Every other path is not an id.
PathIds == 1..(MaxJobs + 1)

JobPaths == {ToString(i) : i \in PathIds} \cup {"x"}

\* JobPath::job: the id that the path spells, 0 if it spells none.
JobPath_job(path) ==
    IF \E i \in PathIds : ToString(i) = path
    THEN CHOOSE i \in PathIds : ToString(i) = path
    ELSE 0

\* db::job_by_id finds the row of an id that a job has.
job_by_id_ok(id) == id \in JobIds /\ job[id].created

\* The errors that the parse of a job id and the lookup of a job may
\* return: the types are those of the database module.
JobIdParseErrors == {"decode", "anyhow"}
JobByIdErrors == {"conflict", "database"}

\* The steps that every job-scoped handler begins with: p.job()? and
\* load_job_for_user, and then the handler itself.
ForPath(u, path, op, Handler(_)) ==
    /\ u \in user
    /\ LET id == JobPath_job(path)
       IN  IF id = 0
           THEN /\ \E kind \in JobIdParseErrors :
                    resp' = ErrorResponse(op, 0, or_500(kind))
                /\ UNCHANGED <<job, events, worker, leases, now, files,
                               chunks, jobfile, blob, evlog, ledger>>
                /\ UNCHANGED cold_vars
           ELSE IF ~job_by_id_ok(id)
           THEN /\ \E kind \in JobByIdErrors :
                    resp' = ErrorResponse(op, id, or_500(kind))
                /\ UNCHANGED <<job, events, worker, leases, now, files,
                               chunks, jobfile, blob, evlog, ledger>>
                /\ UNCHANGED cold_vars
           ELSE IF ~load_job_for_user(u, job[id])
           THEN Forbidden(op, id)
           ELSE Handler(id)

JobGetPath(u, path) == ForPath(u, path, "job_get", JobGet)

JobCancelPath(u, path, lc) ==
    ForPath(u, path, "job_cancel", LAMBDA j : JobCancel(j, lc))

\* The commit ids that a body may spell, and one string that is no id.
CommitStrings == CommitIds \cup {"x"}

\* job_add_input from the request as it arrives: the name and the size
\* are checked, then the commit id is decoded, then the job is loaded.
JobAddInputPath(u, path, lw, commit_id, name, size, cl) ==
    /\ u \in user
    /\ IF contains_slash(name) \/ size > MaxBytesPerInput
       THEN /\ resp' = Done("job_add_input", 0, "400")
            /\ UNCHANGED <<job, events, worker, leases, now, files, chunks,
                           jobfile, blob, evlog, ledger>>
            /\ UNCHANGED cold_vars
       ELSE IF commit_id \notin CommitIds
       THEN /\ resp' = ErrorResponse("job_add_input", 0, or_500("decode"))
            /\ UNCHANGED <<job, events, worker, leases, now, files, chunks,
                           jobfile, blob, evlog, ledger>>
            /\ UNCHANGED cold_vars
       ELSE ForPath(u, path, "job_add_input",
                    LAMBDA j : JobAddInput(j, lw, commit_id, name, size, cl))

NextPaths ==
    \/ \E u \in user, path \in JobPaths : JobGetPath(u, path)
    \/ \E u \in user, path \in JobPaths, lc \in BOOLEAN :
        JobCancelPath(u, path, lc)
    \/ \E u \in user, path \in JobPaths, lw \in BOOLEAN,
          k \in CommitStrings, n \in InputNames \cup PathNames :
        JobAddInputPath(u, path, lw, k, n, 0, <<>>)

SpecPaths == InitAccess /\ [][NextPaths]_vars

(***************************************************************************)
(* job_output_publish: an output of a job is published under a series, a   *)
(* version and a name, which must be safe identifiers.                     *)
(***************************************************************************)
MinSafeLen == 2
MaxSafeLen == 48

Digits == {"0", "9"}
Letters == {"a", "z", "A", "Z"}

\* The characters of an identifier that one_safe lets pass.
safe_char(c) == c \in Digits \/ c \in Letters \/ c \in {"-", "_", "."}

one_safe_to_49(n) ==
    /\ Len(n) \in MinSafeLen..(MaxSafeLen + 1)
    /\ \A i \in 1..Len(n) : safe_char(n[i])

\* JobOutputPublish::one_safe
one_safe(n) ==
    /\ Len(n) \in MinSafeLen..MaxSafeLen
    /\ \A i \in 1..Len(n) : safe_char(n[i])

\* JobOutputPublish::safe
safe(b) == one_safe(b.series) /\ one_safe(b.version) /\ one_safe(b.name)

\* job_publish_output: the file is recorded under the three identifiers.
job_publish_output(rows, j, file, b) ==
    rows \cup {[job |-> j, file |-> file, series |-> b.series,
                version |-> b.version, name |-> b.name]}

PublishResponse(j, res, u, id, b) ==
    [op |-> "job_output_publish", job |-> j, res |-> res,
     arg |-> [inputs |-> {}, depends |-> {}, user |-> u.name, output |-> id,
              body |-> b]]

\* job_output_publish: the body is checked before the user is
\* authenticated and the job and its output are loaded.
JobOutputPublish(u, j, id, b) ==
    /\ u \in user
    /\ job[j].created
    /\ LET res == IF ~safe(b) THEN "400"
                  ELSE IF ~load_job_for_user(u, job[j]) THEN "403"
                  ELSE IF load_job_output(job[j], blob[j], <<j, id>>) = {}
                  THEN "500"
                  ELSE "204"
       IN  /\ resp' = PublishResponse(j, res, u, id, b)
           /\ published' = IF res = "204"
                           THEN job_publish_output(published, j, <<j, id>>, b)
                           ELSE published
    /\ UNCHANGED <<job, events, worker, leases, now, files, chunks, jobfile,
                   blob, evlog, ledger, cache, staged, object, jobstore, user,
                   targets, delivery, webhook, dblock, ext_vars>>

\* The identifiers of the requests: of every length at and beside the
\* bounds, of every class of safe character, and with a character that is
\* not safe in the first, the last or a middle place.
Fill(c, n) == [i \in 1..n |-> c]

Identifiers ==
    {Fill("a", n) :
        n \in {0, MinSafeLen - 1, MinSafeLen, MaxSafeLen, MaxSafeLen + 1}}
    \cup {Fill("Z", MaxSafeLen), <<"0", "9">>, <<".", ".">>, <<"-", "_">>}
    \cup {<<"a", "/">>, <<"/", "a">>, <<"a", " ">>, <<"a", "+", "a">>,
          [Fill("a", MaxSafeLen) EXCEPT ![MaxSafeLen] = "/"]}

PublishBodies ==
    [series : Identifiers, version : Identifiers, name : Identifiers]

\* A request that has arrived and is yet to be handled.
PublishRequest(u, j, id, b) ==
    [op |-> "request", job |-> j, res |-> "",
     arg |-> [inputs |-> {}, depends |-> {}, user |-> u.name, output |-> id,
              body |-> b]]

\* A complete job of u1 with one output.
PublishRow ==
    [job_create("u1", "t1", {}, {}) EXCEPT
        !.complete = TRUE,
        !.outputs = {[path |-> <<"/", "o">>, file |-> <<1, 1>>]}]

InitPublish ==
    /\ job = [j \in JobIds |-> IF j = 1 THEN PublishRow ELSE NoJob]
    /\ events = [j \in JobIds |-> {}]
    /\ worker = [w \in WorkerIds |-> NoWorker]
    /\ leases = {}
    /\ now = 0
    /\ files = [j \in JobIds |-> NoFiles]
    /\ chunks = [j \in JobIds |-> <<>>]
    /\ jobfile = [j \in JobIds |->
                    IF j = 1
                    THEN {[id |-> 1, size |-> 1, bytes |-> <<7>>,
                           commit |-> ""]}
                    ELSE {}]
    /\ blob = [j \in JobIds |-> NoBlob]
    /\ resp \in {PublishRequest(u, 1, id, b) :
                    u \in SubmitUsers, id \in FileIds, b \in PublishBodies}
    /\ evlog = [j \in JobIds |-> <<>>]
    /\ ledger = [j \in JobIds |-> [k \in CommitIds |-> NoCommit]]
    /\ cache = [j \in JobIds |-> NoBlob]
    /\ staged = [j \in JobIds |->
                    IF j = 1 THEN {[id |-> 1, bytes |-> <<7>>]} ELSE {}]
    /\ object = [j \in JobIds |-> {}]
    /\ jobstore = [j \in JobIds |-> {}]
    /\ user = SubmitUsers
    /\ targets = Targets
    /\ published = {}
    /\ delivery = <<>>
    /\ webhook = [r \in RequestIds |-> NoRequest]
    /\ dblock = FALSE
    /\ InitExt

NextPublish ==
    /\ resp.op = "request"
    /\ \E u \in user :
        /\ u.name = resp.arg.user
        /\ JobOutputPublish(u, resp.job, resp.arg.output, resp.arg.body)

SpecPublish == InitPublish /\ [][NextPublish]_vars

(***************************************************************************)
(* Input sizes: inputs of sizes at and beside the two ceilings are added   *)
(* through the chunked and through the synchronous endpoint.               *)
(***************************************************************************)
\* A chunk of one byte less than 1 GiB.
BigChunk == << <<0, MaxBytesSync - 1>> >>

SizeChunkData == ChunkData \cup {BigChunk}
SizeChunkLists == {<<>>, <<1>>, <<1, 2>>, <<2, 1>>}

\* The size field of JobAddInputSync is an i64, that of JobAddInput a u64.
SyncSizes ==
    {-1, 0, MaxBytesPerInput, MaxBytesPerInput + 1, MaxBytesSync,
     MaxBytesSync + 1}
ChunkedSizes == SyncSizes \ {-1}

NextSizes ==
    \/ Created = {} /\ JobSubmit("t1", InputNames, {})
    \/ \E j \in JobIds, lw \in BOOLEAN, d \in SizeChunkData :
        JobUploadChunk(j, lw, d)
    \/ \E j \in JobIds, lw \in BOOLEAN, k \in CommitIds,
          n \in InputNames \cup PathNames, sz \in ChunkedSizes,
          cl \in SizeChunkLists :
        JobAddInput(j, lw, k, n, sz, cl)
    \/ \E j \in JobIds, lw \in BOOLEAN, n \in InputNames \cup PathNames,
          sz \in SyncSizes, cl \in SizeChunkLists :
        JobAddInputSync(j, lw, n, sz, cl)
    \/ \E j \in JobIds, k \in CommitIds : FilesWorker(j, k)

SpecSizes == Init /\ [][NextSizes]_vars

(***************************************************************************)
(* The webhook of the GitHub server: a delivery is stored, and the store   *)
(* is tried again after a sleep for as long as the database is locked.     *)
(***************************************************************************)
MaxTries == 3
SleepMs == 500

Uuids == {"d1", "d2"}

\* The requests: the signature header is missing, wrong or right, the body
\* is JSON or not, and the x-github-delivery and x-github-event headers
\* are there or not (no uuid is "").
WebhookRequests ==
    [sig : {"none", "bad", "good"}, json : BOOLEAN, uuid : Uuids \cup {""},
     event : BOOLEAN]

\* The checks of the handler that come before the store.
webhook_checks(q) ==
    q.sig = "good" /\ q.json /\ q.uuid # "" /\ q.event

\* The seq of a uuid in the table.
SeqOf(table, uuid) == CHOOSE i \in 1..Len(table) : table[i] = uuid

Delivered(table, uuid) == \E i \in 1..Len(table) : table[i] = uuid

\* store_delivery: the seq of the delivery and whether it is new.
store_delivery_res(table, uuid) ==
    IF Delivered(table, uuid)
    THEN [seq |-> SeqOf(table, uuid), new |-> FALSE]
    ELSE [seq |-> Len(table) + 1, new |-> TRUE]

store_delivery_append(table, uuid) == Append(table, uuid)

\* store_delivery: the table after the call.
store_delivery(table, uuid) ==
    IF Delivered(table, uuid) THEN table ELSE Append(table, uuid)

\* The ways a call of store_delivery can end: with the database locked by
\* another process it fails as locked, and it may fail otherwise.
StoreOutcomes == IF dblock THEN {"locked", "other"} ELSE {"ok", "other"}

\* One turn of the loop of the handler for request r with what it has
\* slept so far.
StoreAttempt(r, uuid, slept, outcome) ==
    LET w == [webhook[r] EXCEPT !.uuid = uuid, !.slept = slept,
                                !.tries = @ + 1, !.last = outcome]
    IN  CASE outcome = "ok" ->
                LET d == store_delivery_res(delivery, uuid)
                IN  /\ delivery' = store_delivery(delivery, uuid)
                    /\ webhook' = [webhook EXCEPT ![r] =
                            [w EXCEPT !.pc = "done", !.res = "200",
                                      !.seq = d.seq, !.new = d.new]]
          [] outcome = "locked" ->
                /\ webhook' = [webhook EXCEPT ![r] = [w EXCEPT !.pc = "sleep"]]
                /\ UNCHANGED delivery
          [] OTHER ->
                /\ webhook' = [webhook EXCEPT ![r] =
                        [w EXCEPT !.pc = "done", !.res = "500"]]
                /\ UNCHANGED delivery

HookUnchanged ==
    UNCHANGED <<job, events, worker, leases, now, files, chunks, jobfile,
                blob, resp, evlog, ledger, cache, staged, object, jobstore,
                user, targets, published, ext_vars>>

\* webhook, up to the first sleep or the response.
Webhook(r, q) ==
    /\ webhook[r].pc = "none"
    /\ IF ~webhook_checks(q)
       THEN /\ webhook' = [webhook EXCEPT ![r] =
                    [@ EXCEPT !.pc = "done", !.res = "500", !.uuid = q.uuid]]
            /\ UNCHANGED delivery
       ELSE \E outcome \in StoreOutcomes :
                StoreAttempt(r, q.uuid, 0, outcome)
    /\ UNCHANGED dblock
    /\ HookUnchanged

\* webhook, from the end of a sleep to the next sleep or the response.  A
\* request that has found the lock MaxTries times stays asleep while the
\* lock is held.
WebhookRetry(r) ==
    /\ webhook[r].pc = "sleep"
    /\ webhook[r].tries < MaxTries \/ ~dblock
    /\ \E outcome \in StoreOutcomes :
            StoreAttempt(r, webhook[r].uuid, webhook[r].slept + SleepMs,
                         outcome)
    /\ UNCHANGED dblock
    /\ HookUnchanged

\* Another process takes or gives up the lock of the database.
DatabaseLock ==
    /\ dblock' = ~dblock
    /\ UNCHANGED <<delivery, webhook>>
    /\ HookUnchanged

NextWebhook ==
    \/ \E r \in RequestIds, q \in WebhookRequests : Webhook(r, q)
    \/ \E r \in RequestIds : WebhookRetry(r)
    \/ DatabaseLock

\* The sleep of a request ends, and the request is then run.
SpecWebhook ==
    /\ Init
    /\ [][NextWebhook]_vars
    /\ \A r \in RequestIds : WF_vars(WebhookRetry(r))

(***************************************************************************)
(* The tail of the job output in the GitHub check run: each event of the   *)
(* job becomes one line.                                                   *)
(***************************************************************************)
MaxLineChars == 100

\* The streams of the events, with their names as characters.
Streams == {"stdout", "stderr", "console", "task", "worker"}

StreamChars(stream) ==
    CASE stream = "stdout" -> <<"s", "t", "d", "o", "u", "t">>
      [] stream = "stderr" -> <<"s", "t", "d", "e", "r", "r">>
      [] stream = "console" -> <<"c", "o", "n", "s", "o", "l", "e">>
      [] stream = "task" -> <<"t", "a", "s", "k">>
      [] OTHER -> <<"w", "o", "r", "k", "e", "r">>

\* The payloads: of lengths at and beside 100 characters, of one character
\* throughout or ending in another.
PayloadLengths ==
    {0, 1, MaxLineChars - 1, MaxLineChars, MaxLineChars + 1,
     MaxLineChars + 2, 2 * MaxLineChars}

TailPayloads ==
    {Fill("x", n) : n \in PayloadLengths}
    \cup {Fill("x", n - 1) \o <<"y">> : n \in PayloadLengths \ {0}}

Truncated == <<" ", "[", ".", ".", ".", "]">>

\* The first 100 characters of the payload.
tail_take(payload) ==
    SubSeq(payload, 1,
           IF Len(payload) < MaxLineChars THEN Len(payload)
           ELSE MaxLineChars)

\* The line of the tail for an event: output of the job and of the
\* console is cut at 100 characters, an event of another stream is a
\* header with its stream and its payload.
tail_line(stream, payload) ==
    IF stream \in {"stdout", "stderr", "console"}
    THEN LET start == IF stream = "console"
                      THEN <<"|", "C", "|", " ">>
                      ELSE <<"|", " ">>
             taken == tail_take(payload)
         IN  IF Len(payload) > Len(taken)
             THEN start \o taken \o Truncated
             ELSE start \o taken
    ELSE StreamChars(stream) \o <<":", " ">> \o payload

TailRequest(stream, payload) ==
    [op |-> "event", job |-> 1, res |-> "",
     arg |-> [inputs |-> {}, depends |-> {}, stream |-> stream,
              payload |-> payload, line |-> <<>>]]

InitTail ==
    /\ job = [j \in JobIds |-> NoJob]
    /\ events = [j \in JobIds |-> {}]
    /\ worker = [w \in WorkerIds |-> NoWorker]
    /\ leases = {}
    /\ now = 0
    /\ files = [j \in JobIds |-> NoFiles]
    /\ chunks = [j \in JobIds |-> <<>>]
    /\ jobfile = [j \in JobIds |-> {}]
    /\ blob = [j \in JobIds |-> NoBlob]
    /\ resp \in {TailRequest(st, pl) : st \in Streams, pl \in TailPayloads}
    /\ evlog = [j \in JobIds |-> <<>>]
    /\ ledger = [j \in JobIds |-> [k \in CommitIds |-> NoCommit]]
    /\ cache = [j \in JobIds |-> NoBlob]
    /\ staged = [j \in JobIds |-> {}]
    /\ object = [j \in JobIds |-> {}]
    /\ jobstore = [j \in JobIds |-> {}]
    /\ user = SubmitUsers
    /\ targets = Targets
    /\ published = {}
    /\ delivery = <<>>
    /\ webhook = [r \in RequestIds |-> NoRequest]
    /\ dblock = FALSE
    /\ InitExt

\* The event is put at the end of the tail.
TailEvent ==
    /\ resp.op = "event"
    /\ resp' = [resp EXCEPT
                    !.op = "tail", !.res = "line",
                    !.arg.line = tail_line(resp.arg.stream, resp.arg.payload)]
    /\ UNCHANGED <<job, events, worker, leases, now, files, chunks, jobfile,
                   blob, evlog, ledger>>
    /\ UNCHANGED cold_vars

NextTail == TailEvent

SpecTail == InitTail /\ [][NextTail]_vars

(***************************************************************************)
(* cache upload: the target directory is cleaned of the files of the       *)
(* workspace's own packages before the cache is saved.                     *)
(***************************************************************************)
\* The names of the workspace packages, and the names of the entries that
\* debug/deps and debug/.fingerprint may hold: of the package a-b with "_"
\* and with "-", of a dependency, and one without "-".
PackageNames == {<<"a", "-", "b">>}

EntryNames ==
    {<<"a", "_", "b", "-", "h">>, <<"a", "-", "b", "-", "h">>,
     <<"d", "-", "h">>, <<"n">>}

TargetDirs ==
    [rustc_info : BOOLEAN, deps : SUBSET EntryNames,
     fingerprint : SUBSET EntryNames]

\* str::replace of one character by another.
replace(str, from, to) ==
    [i \in 1..Len(str) |-> IF str[i] = from THEN to ELSE str[i]]

NoSplit == <<>>

\* rsplit_once: what stands before the last delimiter, or nothing
\* (NoSplit) for a string without one; an entry name is never empty.
rsplit_once(haystack, delim) ==
    LET at == {i \in 1..Len(haystack) : haystack[i] = delim}
    IN  IF at = {} THEN NoSplit ELSE SubSeq(haystack, 1, Max(at) - 1)

to_delete == {replace(n, "-", "_") : n \in PackageNames}

\* The entries of one directory that the loop of clean_target_dir removes.
deletes(name) ==
    \/ rsplit_once(name, "-") = NoSplit
    \/ replace(rsplit_once(name, "-"), "-", "_") \in to_delete

cleaned(dir, dry_run) ==
    IF dry_run THEN dir ELSE {n \in dir : ~deletes(n)}

\* clean_target_dir: .rustc_info.json is removed, which fails when it is
\* not there, then the two directories are gone through.
clean_target_dir_ok(td) == td.rustc_info

clean_target_dir(td, dry_run) ==
    IF ~clean_target_dir_ok(td) THEN td
    ELSE [rustc_info |-> FALSE,
          deps |-> cleaned(td.deps, dry_run),
          fingerprint |-> cleaned(td.fingerprint, dry_run)]

\* upload: the directory is cleaned and the hash is calculated, which
\* changes no file.
CacheUpload(dry_run, verbose) ==
    /\ resp.op = "none"
    /\ target_dir' = clean_target_dir(target_dir, dry_run)
    /\ resp' = [op |-> "cache_upload", job |-> 0,
                res |-> IF clean_target_dir_ok(target_dir) THEN "ok"
                        ELSE "err",
                arg |-> [inputs |-> {}, depends |-> {}, dry_run |-> dry_run,
                         before |-> target_dir]]
    /\ UNCHANGED <<job, events, worker, leases, now, files, chunks, jobfile,
                   blob, evlog, ledger, cache, staged, object, jobstore, user,
                   targets, published, delivery, webhook, dblock, checkrun,
                   submitted>>

InitCache ==
    /\ job = [j \in JobIds |-> NoJob]
    /\ events = [j \in JobIds |-> {}]
    /\ worker = [w \in WorkerIds |-> NoWorker]
    /\ leases = {}
    /\ now = 0
    /\ files = [j \in JobIds |-> NoFiles]
    /\ chunks = [j \in JobIds |-> <<>>]
    /\ jobfile = [j \in JobIds |-> {}]
    /\ blob = [j \in JobIds |-> NoBlob]
    /\ resp = NoResp
    /\ evlog = [j \in JobIds |-> <<>>]
    /\ ledger = [j \in JobIds |-> [k \in CommitIds |-> NoCommit]]
    /\ cache = [j \in JobIds |-> NoBlob]
    /\ staged = [j \in JobIds |-> {}]
    /\ object = [j \in JobIds |-> {}]
    /\ jobstore = [j \in JobIds |-> {}]
    /\ user = SubmitUsers
    /\ targets = Targets
    /\ published = {}
    /\ delivery = <<>>
    /\ webhook = [r \in RequestIds |-> NoRequest]
    /\ dblock = FALSE
    /\ target_dir \in TargetDirs
    /\ checkrun = NoCheckRun
    /\ submitted = {}

NextCache == \E dry_run, verbose \in BOOLEAN : CacheUpload(dry_run, verbose)

SpecCache == InitCache /\ [][NextCache]_vars

(***************************************************************************)
(* Completion of a job around its uploads, with a store that may fail.     *)
(***************************************************************************)
\* complete_job when db.job_complete fails: mark_job_completed has been
\* called, the error is returned and forget_job is not reached.
complete_job_files_db_error(fr) ==
    IF ~mark_job_completed_ok(fr) THEN fr ELSE mark_job_completed(fr)

WorkerJobCompleteDbError(w, j, failed) ==
    /\ worker[w].created
    /\ worker[w].token
    /\ job[j].created
    /\ Authed(w) /\ j \in JobsOf(w)
    /\ resp' = Done("worker_job_complete", j, "error")
    /\ files' = [files EXCEPT ![j] = complete_job_files_db_error(@)]
    /\ UNCHANGED <<job, events, worker, leases, now, chunks, jobfile, blob,
                   evlog, ledger>>
    /\ UNCHANGED cold_vars

NextComplete ==
    \/ NextFiles
    \/ \E w \in WorkerIds, j \in JobIds :
        WorkerJobCompleteDbError(w, j, FALSE)

SpecComplete == Init /\ [][NextComplete]_vars

(***************************************************************************)
(* Reads around the archiving of a job: the handler loads the job row,     *)
(* then reads the events or the outputs with the row it loaded.            *)
(***************************************************************************)
\* The job row as the handler loaded it.
LoadedRow(j, loaded_archived) == [job[j] EXCEPT !.archived = loaded_archived]

ReadResponse(op, j, minseq, evs, outs) ==
    [op |-> op, job |-> j, res |-> "200",
     arg |-> [inputs |-> {}, depends |-> {}, minseq |-> minseq,
              events |-> evs, outputs |-> outs]]

\* job_events_get
JobEventsGet(j, loaded_archived, minseq) ==
    /\ job[j].created
    /\ loaded_archived \in LoadedArchived(j)
    /\ resp' = ReadResponse("job_events_get", j, minseq,
                    load_job_events(LoadedRow(j, loaded_archived), events[j],
                                    blob[j], minseq), {})
    /\ UNCHANGED <<job, events, worker, leases, now, files, chunks, jobfile,
                   blob, evlog, ledger>>
    /\ UNCHANGED cold_vars

\* job_outputs_get
JobOutputsGet(j, loaded_archived) ==
    /\ job[j].created
    /\ loaded_archived \in LoadedArchived(j)
    /\ resp' = ReadResponse("job_outputs_get", j, 0, <<>>,
                    load_job_outputs(LoadedRow(j, loaded_archived), blob[j]))
    /\ UNCHANGED <<job, events, worker, leases, now, files, chunks, jobfile,
                   blob, evlog, ledger>>
    /\ UNCHANGED cold_vars

NextReads ==
    \/ Created = {} /\ JobSubmit("t1", {}, {})
    \/ NoWorkers /\ FactoryWorkerCreate("f1", "t1", 0)
    \/ \E w \in WorkerIds : WorkerBootstrap(w)
    \/ \E j \in JobIds, w \in WorkerIds : AssignStep(j, w)
    \/ \E w \in WorkerIds, j \in JobIds, p \in Payloads :
        WorkerAppend(w, j, p)
    \/ \E w \in WorkerIds, j \in JobIds, p \in OutputPaths :
        WorkerAddOutput(w, j, p)
    \/ \E w \in WorkerIds, j \in JobIds : WorkerJobComplete(w, j, FALSE)
    \/ \E j \in JobIds : ArchiveJob(j)
    \/ \E j \in JobIds, la \in BOOLEAN, minseq \in 0..1 :
        JobEventsGet(j, la, minseq)
    \/ \E j \in JobIds, la \in BOOLEAN : JobOutputsGet(j, la)

SpecReads == Init /\ [][NextReads]_vars

(***************************************************************************)
(* The GitHub server's basic variety: one check run, its private state     *)
(* and the buildomat job it submits.  The check run is read from the       *)
(* GitHub database at the start of each call and written by                *)
(* update_check_run; a call that fails leaves the row as it was.           *)
(***************************************************************************)
MaxTail == 25

MaxRunEvents == 27

\* A worker appends to the log of its job; the job of a check run may log
\* more than the tail view keeps.
WorkerAppendLong(w, j, payload) ==
    /\ Authed(w)
    /\ j \in JobsOf(w)
    /\ Len(evlog[j]) < MaxRunEvents
    /\ AppendEvent(j, "stdout", payload)
    /\ resp' = NoResp
    /\ UNCHANGED <<job, worker, leases, now, files, chunks, jobfile, blob,
                   ledger>>
    /\ UNCHANGED cold_vars

\* What a call of the variety leaves alone: a call changes the check run,
\* and the job table through the requests it sends.
BasicUnchanged ==
    <<events, worker, leases, now, files, chunks, jobfile, blob, evlog,
      ledger, cache, staged, object, jobstore, user, targets, published,
      delivery, webhook, dblock, target_dir>>

\* The outcome of a call: res is what it returned, before the private
\* state it loaded, state the job state that job_get reported ("none"
\* without a job_get) and sent whether a job_cancel request was sent.
BasicResponse(op, res, before, state, sent) ==
    [op |-> op, job |-> before.buildomat_id, res |-> res,
     arg |-> [inputs |-> {}, depends |-> {}, before |-> before,
              state |-> state, sent |-> sent]]

\* flush: the conclusion shown for a private state; "panic" is the unwrap
\* of a missing job_state.
flush_error_unchecked(p) ==
    IF p.complete
    THEN IF p.job_state = "none" THEN "panic"
         ELSE IF p.job_state = "completed" THEN "success"
         ELSE "failure"
    ELSE IF p.job_state = "none" THEN "queued"
    ELSE IF p.job_state \in {"queued", "waiting"} THEN "queued"
    ELSE "running"

flush(p) ==
    IF p.complete
    THEN IF p.error # "none" THEN "failure"
         ELSE IF p.job_state = "none" THEN "panic"
         ELSE IF p.job_state = "completed" THEN "success"
         ELSE "failure"
    ELSE IF p.job_state = "none" THEN "queued"
    ELSE IF p.job_state \in {"queued", "waiting"} THEN "queued"
    ELSE "running"

\* The seq of each event of a response.
SeqsOf(evs) == [i \in 1..Len(evs) |-> evs[i].seq]

\* event_minseq after the events of a response.
run_minseq(minseq, evs) ==
    Max({minseq} \cup {evs[i].seq + 1 : i \in 1..Len(evs)})

\* events_tail after the redraw: the lines are pushed, then popped from the
\* front down to 25.
run_tail(tail, evs) ==
    LET all == tail \o SeqsOf(evs)
    IN  IF Len(all) > MaxTail
        THEN SubSeq(all, Len(all) - MaxTail + 1, Len(all))
        ELSE all

\* run with a job submitted: the private state after the job state and the
\* events were fetched; the events are read when the redraw is due or the
\* job is over.
run_update(p, state, redraw, evs) ==
    LET complete == state \in {"completed", "failed"}
        q == [p EXCEPT !.job_state = state]
    IN  IF redraw \/ complete
        THEN [q EXCEPT !.event_minseq = run_minseq(p.event_minseq, evs),
                       !.events_tail = run_tail(p.events_tail, evs),
                       !.added = @ \o SeqsOf(evs)]
        ELSE q

\* The end of run: a job state of "completed" or "failed" completes the
\* check run.
run_end(p) ==
    IF p.job_state \in {"completed", "failed"}
    THEN [p EXCEPT !.complete = TRUE]
    ELSE p

\* set_private and update_check_run; with a database that fails the row
\* stays as it was and the call returns the error.
UpdateCheckRun(op, p, res, state, sent, fail) ==
    IF fail = "db"
    THEN /\ resp' = BasicResponse(op, "error", checkrun.private, state, sent)
         /\ UNCHANGED checkrun
    ELSE /\ resp' = BasicResponse(op, res, checkrun.private, state, sent)
         /\ checkrun' = [checkrun EXCEPT !.private = p, !.flushed = FALSE]

\* basic::run.  loaded_archived is the archived flag of the job row that
\* job_events_get loaded, redraw whether six seconds have passed since the
\* last redraw, fail the request that fails: "none", "backend" (a request
\* to buildomat) or "db" (update_check_run).
BasicRun(loaded_archived, redraw, fail) ==
    LET p == checkrun.private
        jid == p.buildomat_id
    IN
    /\ checkrun.target # "none"
    /\ IF p.complete
       THEN /\ fail = "none"
            /\ resp' = BasicResponse("run", "false", p, "none", FALSE)
            /\ UNCHANGED <<job, checkrun, submitted>>
       ELSE IF ~checkrun.content
       THEN /\ fail # "backend"
            /\ UpdateCheckRun("run",
                    [p EXCEPT !.complete = TRUE, !.error = "no script"],
                    "false", "none", FALSE, fail)
            /\ UNCHANGED <<job, submitted>>
       ELSE IF jid # 0
       THEN /\ loaded_archived \in LoadedArchived(jid)
            /\ IF fail = "backend"
               THEN /\ resp' = BasicResponse("run", "error", p, "none", FALSE)
                    /\ UNCHANGED checkrun
               ELSE LET state == format_job_state(job[jid])
                        evs == load_job_events(
                                   LoadedRow(jid, loaded_archived),
                                   events[jid], blob[jid], p.event_minseq)
                    IN  UpdateCheckRun("run",
                            run_end(run_update(p, state, redraw, evs)),
                            "true", state, FALSE, fail)
            /\ UNCHANGED <<job, submitted>>
       ELSE IF ~checkrun.active
       THEN /\ fail = "none"
            /\ resp' = BasicResponse("run", "false", p, "none", FALSE)
            /\ UNCHANGED <<job, checkrun, submitted>>
       ELSE IF fail = "backend"
       THEN /\ resp' = BasicResponse("run", "error", p, "none", FALSE)
            /\ UNCHANGED <<job, checkrun, submitted>>
       ELSE IF target_resolve(checkrun.target) = "none"
       THEN /\ UpdateCheckRun("run",
                    [p EXCEPT !.complete = TRUE, !.error = "could not submit"],
                    "false", "none", FALSE, fail)
            /\ UNCHANGED <<job, submitted>>
       ELSE /\ JobIds \ Created # {}
            /\ LET id == Min(JobIds \ Created)
               IN  /\ job' = [job EXCEPT
                        ![id] = job_submit_row(checkrun.target, {}, {})]
                   /\ submitted' = submitted \cup {id}
                   /\ UpdateCheckRun("run",
                        run_end([p EXCEPT !.buildomat_id = id]),
                        "true", "none", FALSE, fail)
    /\ UNCHANGED BasicUnchanged

\* The test of basic::cancel for a job that is over.
cancel_finished(state) == state = "complete" \/ state = "failed"

\* basic::cancel.  loaded_complete is the complete flag of the job row that
\* job_cancel loaded.
BasicCancel(loaded_complete, fail) ==
    LET p == checkrun.private
        jid == p.buildomat_id
    IN
    /\ checkrun.target # "none"
    /\ IF p.complete \/ p.cancelled
       THEN /\ fail = "none"
            /\ resp' = BasicResponse("cancel", "ok", p, "none", FALSE)
            /\ UNCHANGED <<job, checkrun>>
       ELSE IF jid = 0
       THEN /\ fail # "backend"
            /\ UpdateCheckRun("cancel",
                    [p EXCEPT !.error = "cancelled", !.complete = TRUE,
                              !.cancelled = TRUE],
                    "ok", "none", FALSE, fail)
            /\ UNCHANGED job
       ELSE IF fail = "backend"
       THEN /\ resp' = BasicResponse("cancel", "error", p, "none", FALSE)
            /\ UNCHANGED <<job, checkrun>>
       ELSE LET state == format_job_state(job[jid])
            IN  IF cancel_finished(state)
                THEN /\ fail = "none"
                     /\ resp' = BasicResponse("cancel", "ok", p, state, FALSE)
                     /\ UNCHANGED <<job, checkrun>>
                ELSE /\ loaded_complete \in LoadedComplete(jid)
                     /\ IF loaded_complete \/ ~job_cancel_ok(job[jid])
                        THEN /\ fail = "none"
                             /\ resp' = BasicResponse("cancel", "error", p,
                                                      state, TRUE)
                             /\ UNCHANGED <<job, checkrun>>
                        ELSE /\ job' = [job EXCEPT ![jid] = job_cancel(@)]
                             /\ UpdateCheckRun("cancel",
                                    [p EXCEPT !.cancelled = TRUE],
                                    "ok", state, TRUE, fail)
    /\ UNCHANGED submitted
    /\ UNCHANGED BasicUnchanged

\* flush of the stored private state; the caller that sends the outcome to
\* GitHub is outside the sources read here.
BasicFlush ==
    /\ checkrun.target # "none"
    /\ resp' = BasicResponse("flush", flush(checkrun.private),
                             checkrun.private, "none", FALSE)
    /\ UNCHANGED <<job, checkrun, submitted>>
    /\ UNCHANGED BasicUnchanged

CheckRuns ==
    {[active |-> a, flushed |-> FALSE, content |-> c, target |-> t,
      private |-> NoPrivate] :
        a \in BOOLEAN, c \in BOOLEAN, t \in {"t1", "nope"}}

InitCheckRun ==
    /\ job = [j \in JobIds |-> NoJob]
    /\ events = [j \in JobIds |-> {}]
    /\ worker = [w \in WorkerIds |-> NoWorker]
    /\ leases = {}
    /\ now = 0
    /\ files = [j \in JobIds |-> NoFiles]
    /\ chunks = [j \in JobIds |-> <<>>]
    /\ jobfile = [j \in JobIds |-> {}]
    /\ blob = [j \in JobIds |-> NoBlob]
    /\ resp = NoResp
    /\ evlog = [j \in JobIds |-> <<>>]
    /\ ledger = [j \in JobIds |-> [k \in CommitIds |-> NoCommit]]
    /\ cache = [j \in JobIds |-> NoBlob]
    /\ staged = [j \in JobIds |-> {}]
    /\ object = [j \in JobIds |-> {}]
    /\ jobstore = [j \in JobIds |-> {}]
    /\ user = SubmitUsers
    /\ targets = Targets
    /\ published = {}
    /\ delivery = <<>>
    /\ webhook = [r \in RequestIds |-> NoRequest]
    /\ dblock = FALSE
    /\ target_dir = NoTargetDir
    /\ checkrun \in CheckRuns
    /\ submitted = {}

NextCheckRun ==
    \/ \E la, redraw \in BOOLEAN, fail \in {"none", "backend", "db"} :
        BasicRun(la, redraw, fail)
    \/ \E lc \in BOOLEAN, fail \in {"none", "backend", "db"} :
        BasicCancel(lc, fail)
    \/ BasicFlush
    \/ NoWorkers /\ FactoryWorkerCreate("f1", "t1", 0)
    \/ \E w \in WorkerIds : WorkerBootstrap(w)
    \/ \E j \in JobIds, w \in WorkerIds : AssignStep(j, w)
    \/ \E w \in WorkerIds, j \in JobIds : WorkerAppend(w, j, "a")
    \/ \E w \in WorkerIds, j \in JobIds, f \in BOOLEAN :
        WorkerJobComplete(w, j, f)
    \/ \E j \in JobIds : ArchiveJob(j)

SpecCheckRun == InitCheckRun /\ [][NextCheckRun]_vars

\* A check run whose job logs more lines than the tail view keeps.
InitRunTail ==
    /\ InitCheckRun
    /\ checkrun.active /\ checkrun.content /\ checkrun.target = "t1"

NextRunTail ==
    \/ \E la, redraw \in BOOLEAN, fail \in {"none", "db"} :
        BasicRun(la, redraw, fail)
    \/ NoWorkers /\ FactoryWorkerCreate("f1", "t1", 0)
    \/ \E w \in WorkerIds : WorkerBootstrap(w)
    \/ \E j \in JobIds, w \in WorkerIds : AssignStep(j, w)
    \/ \E w \in WorkerIds, j \in JobIds : WorkerAppendLong(w, j, "a")
    \/ \E w \in WorkerIds, j \in JobIds : WorkerJobComplete(w, j, FALSE)
    \/ \E j \in JobIds : ArchiveJob(j)

SpecRunTail == InitRunTail /\ [][NextRunTail]_vars

(***************************************************************************)
(* format_job: the output rules of a job are shown as strings again, built *)
(* from the rule and the flags that the submission stored.                 *)
(***************************************************************************)
\* The string of one stored rule: the sigils, then the pattern.
format_output_rule_no_percent(jor) ==
    (IF jor.ignore THEN <<"!">> ELSE <<>>)
        \o (IF jor.require_match THEN <<"=">> ELSE <<>>)
        \o jor.rule

format_output_rule(jor) ==
    (IF jor.ignore THEN <<"!">> ELSE <<>>)
        \o (IF jor.size_change_ok THEN <<"%">> ELSE <<>>)
        \o (IF jor.require_match THEN <<"=">> ELSE <<>>)
        \o jor.rule

\* The rule that a submission stored is shown by format_job and the string
\* shown is given to parse_output_rule again.
FormatJobRule ==
    /\ resp.op = "parse_output_rule"
    /\ resp.res = "ok"
    /\ resp' = [op |-> "format_job", job |-> 0, res |-> "ok",
                arg |-> [input |-> resp.arg.input,
                         parsed |-> resp.arg.parsed,
                         shown |-> format_output_rule(resp.arg.parsed),
                         again |-> parse_output_rule(
                                    format_output_rule(resp.arg.parsed))]]
    /\ UNCHANGED <<job, events, worker, leases, now, files, chunks, jobfile,
                   blob, evlog, ledger>>
    /\ UNCHANGED cold_vars

NextFormat == ParseOutputRule \/ FormatJobRule

SpecFormat == InitRules /\ [][NextFormat]_vars

(***************************************************************************)
(* The pages of the GitHub server: the artefacts and the details of a      *)
(* check run, requested with the id and the url_key of a check suite.      *)
(***************************************************************************)
\* The check suites and check runs of the GitHub database; both suites are
\* of one repository.  job stands for the buildomat_id of the private
\* state (0 for None) and outputs for the outputs of that job.
NoCheckSuite == [id |-> "none", url_key |-> "none"]

CheckSuiteRows ==
    {[id |-> "s1", url_key |-> "k1"], [id |-> "s2", url_key |-> "k2"]}

NoCheckRunRow ==
    [id |-> "none", check_suite |-> "none", variety |-> "none", job |-> 0,
     outputs |-> {}]

CheckRunRows ==
    {[id |-> "r1", check_suite |-> "s1", variety |-> "basic", job |-> 1,
      outputs |-> {"o1"}],
     [id |-> "r2", check_suite |-> "s2", variety |-> "basic", job |-> 2,
      outputs |-> {"o1"}],
     [id |-> "r3", check_suite |-> "s2", variety |-> "control", job |-> 0,
      outputs |-> {}]}

load_check_suite(id) ==
    IF \E cs \in CheckSuiteRows : cs.id = id
    THEN CHOOSE cs \in CheckSuiteRows : cs.id = id
    ELSE NoCheckSuite

load_check_run(id) ==
    IF \E cr \in CheckRunRows : cr.id = id
    THEN CHOOSE cr \in CheckRunRows : cr.id = id
    ELSE NoCheckRunRow

\* The test that both pages make before they serve anything.
url_key_ok(cs, url_key) == cs.url_key = url_key

\* basic::artefact: the output of the job of the check run; "404" without
\* a job, "500" when the download from buildomat fails.
basic_artefact(cr, output) ==
    IF cr.job = 0 THEN "404"
    ELSE IF output \in cr.outputs THEN "200"
    ELSE "500"

\* artefact
artefact(req) ==
    LET cs == load_check_suite(req.check_suite)
        cr == load_check_run(req.check_run)
    IN  IF cs = NoCheckSuite \/ cr = NoCheckRunRow THEN "500"
        ELSE IF ~url_key_ok(cs, req.url_key) THEN "500"
        ELSE IF cr.variety = "basic" THEN basic_artefact(cr, req.output)
        ELSE "404"

\* details
details(req) ==
    LET cs == load_check_suite(req.check_suite)
        cr == load_check_run(req.check_run)
    IN  IF cs = NoCheckSuite \/ cr = NoCheckRunRow THEN "500"
        ELSE IF ~url_key_ok(cs, req.url_key) THEN "500"
        ELSE "200"

PageRequests ==
    {[op |-> "request", job |-> 0, res |-> "",
      arg |-> [page |-> p, check_suite |-> cs, url_key |-> k,
               check_run |-> cr, output |-> o]] :
        p \in {"artefact", "details"}, cs \in {"s1", "s2", "s9"},
        k \in {"k1", "k2", "k9"}, cr \in {"r1", "r2", "r3", "r9"},
        o \in {"o1", "o9"}}

InitPages ==
    /\ job = [j \in JobIds |-> NoJob]
    /\ events = [j \in JobIds |-> {}]
    /\ worker = [w \in WorkerIds |-> NoWorker]
    /\ leases = {}
    /\ now = 0
    /\ files = [j \in JobIds |-> NoFiles]
    /\ chunks = [j \in JobIds |-> <<>>]
    /\ jobfile = [j \in JobIds |-> {}]
    /\ blob = [j \in JobIds |-> NoBlob]
    /\ resp \in PageRequests
    /\ evlog = [j \in JobIds |-> <<>>]
    /\ ledger = [j \in JobIds |-> [k \in CommitIds |-> NoCommit]]
    /\ cache = [j \in JobIds |-> NoBlob]
    /\ staged = [j \in JobIds |-> {}]
    /\ object = [j \in JobIds |-> {}]
    /\ jobstore = [j \in JobIds |-> {}]
    /\ user = {}
    /\ targets = Targets
    /\ published = {}
    /\ delivery = <<>>
    /\ webhook = [r \in RequestIds |-> NoRequest]
    /\ dblock = FALSE
    /\ InitExt

\* The request is answered by the page it names.
Artefact ==
    /\ resp.op = "request"
    /\ resp.arg.page = "artefact"
    /\ resp' = [resp EXCEPT !.op = "artefact", !.res = artefact(resp.arg)]
    /\ UNCHANGED <<job, events, worker, leases, now, files, chunks, jobfile,
                   blob, evlog, ledger>>
    /\ UNCHANGED cold_vars

Details ==
    /\ resp.op = "request"
    /\ resp.arg.page = "details"
    /\ resp' = [resp EXCEPT !.op = "details", !.res = details(resp.arg)]
    /\ UNCHANGED <<job, events, worker, leases, now, files, chunks, jobfile,
                   blob, evlog, ledger>>
    /\ UNCHANGED cold_vars

NextPages == Artefact \/ Details

SpecPages == InitPages /\ [][NextPages]_vars

(***************************************************************************)
(* Properties.                                                             *)
(***************************************************************************)

\* The events a job has stored: its rows, or its archive document.
StoredEvents(j) == IF job[j].archived THEN blob[j].events ELSE events[j]

StrictlyAscending(s) == \A i \in 1..(Len(s) - 1) : s[i].seq < s[i + 1].seq

\* C1: the stored events of every job carry the seq values 0..N-1, one row
\* each, whatever the order in which workers, factories and the control
\* plane appended them; and load_job_events(job, minseq) returns exactly the
\* stored events with seq >= minseq, in ascending seq order, which is the
\* tail of the accepted events from position minseq on (empty when minseq
\* is beyond the last seq).
C1_EventSeq ==
    \A j \in JobIds :
        LET stored == StoredEvents(j)
            n == Cardinality(stored)
        IN  /\ {e.seq : e \in stored} = 0..(n - 1)
            /\ Len(evlog[j]) = n
            /\ \A i \in 1..n : evlog[j][i].seq = i - 1
            /\ \A minseq \in 0..(MaxEvents + 2) :
                LET got == load_job_events(job[j], events[j], blob[j], minseq)
                IN  /\ Range(got) = {e \in stored : e.seq >= minseq}
                    /\ StrictlyAscending(got)
                    /\ got = SubSeq(evlog[j], minseq + 1, n)
                    /\ minseq >= n => got = <<>>

\* C1 witness: an archived job holds events of the control plane, a worker
\* and a factory, and a read from seq 1 returns the later ones only.
C1_Witness ==
    \E j \in JobIds :
        /\ job[j].archived
        /\ {"control", "stdout", "worker"} \subseteq
                {e.stream : e \in StoredEvents(j)}
        /\ Len(load_job_events(job[j], events[j], blob[j], 1)) >= 2

C8_StatePrecedence ==
    resp.op = "job_get" =>
        LET r == job[resp.job]
            s == resp.res
        IN  /\ r.failed => s = "failed"
            /\ ~r.failed /\ r.complete => s = "completed"
            /\ ~r.failed /\ ~r.complete /\ r.worker # 0 => s = "running"
            /\ ~r.failed /\ ~r.complete /\ r.worker = 0 /\ r.waiting =>
                    s = "waiting"
            /\ ~r.failed /\ ~r.complete /\ r.worker = 0 /\ ~r.waiting =>
                    s = "queued"

\* C8 witness: a row with a worker set and waiting set has been rendered,
\* as "running".
C8_Witness ==
    /\ resp.op = "job_get"
    /\ job[resp.job].worker # 0
    /\ job[resp.job].waiting
    /\ ~job[resp.job].complete
    /\ ~job[resp.job].failed
    /\ resp.res = "running"

\* The position of a state string along the life of a job.
StateRank(s) ==
    CASE s = "waiting" -> 0
      [] s = "queued" -> 1
      [] s = "running" -> 2
      [] OTHER -> 3

\* C3: the visible state of a job only moves forward along waiting, queued,
\* running, (completed | failed): no step takes it to an earlier state, a
\* completed or failed job keeps its state, and a cancel request leaves the
\* state as it is or makes it failed.
C3_StateMonotone ==
    [][\A j \in JobIds :
        job[j].created =>
            LET s == format_job_state(job[j])
                t == format_job_state(job'[j])
            IN  /\ StateRank(t) >= StateRank(s)
                /\ s \in {"completed", "failed"} => t = s
                /\ resp'.op = "job_cancel" => t \in {s, "failed"}]_vars

\* C4: a completion request reports true exactly when it takes the job from
\* complete=false to complete=true; a request for a job that is complete
\* already, whatever `failed` it passes, reports false and leaves the row,
\* with its complete and failed flags, as the first request set it.  (A
\* request that is turned away because uploads are in flight never reaches
\* job_complete and reports an error.)
C4_CompleteOnce ==
    [][\A w \in WorkerIds, j \in JobIds, f \in BOOLEAN :
        WorkerJobComplete(w, j, f) =>
            /\ resp'.res = "true" <=> (~job[j].complete /\ job'[j].complete)
            /\ resp'.res = "true" =>
                    job'[j].failed = (f \/ job[j].cancelled)
            /\ job[j].complete =>
                /\ resp'.res \in {"false", "error"}
                /\ job'[j] = job[j]]_vars

\* C4 witness: a second completion request for a job was answered false,
\* and the job is completed, not failed.
C4_Witness ==
    /\ resp.op = "worker_job_complete"
    /\ resp.res = "false"
    /\ job[resp.job].complete
    /\ ~job[resp.job].failed

\* The job that the last request, a submission, created.
Submitted == resp.op = "job_submit" /\ resp.res = "201"

IsBasicDepend(d) == [d EXCEPT !.satisfied = FALSE] = BasicDepend(d.prior)

\* C10, while A is incomplete: a job B that depends on a job A that is not
\* complete is in state waiting, never queued, running or completed; it
\* has left waiting only if it was itself ended as failed, by its
\* cancellation or by a dependency on another job whose outcome that
\* dependency does not permit.
C10_WaitsForPrior ==
    \A b \in JobIds :
        \A d \in job[b].deps :
            ~job[d.prior].complete =>
                \/ format_job_state(job[b]) = "waiting"
                \/ /\ format_job_state(job[b]) = "failed"
                   /\ \/ job[b].cancelled
                      \/ \E d2 \in job[b].deps :
                            /\ d2.prior # d.prior
                            /\ job[d2.prior].complete
                            /\ ~DepPermitted(d2)

\* C10, once A has completed: the step of the assignment loop that finds
\* the prior jobs of B complete, each successfully and with a dependency
\* as the GitHub front-end declares it (on_completed=true,
\* copy_outputs=true) or one that permits completion, leaves B queued as
\* soon as no input of its own is missing, and with every output of each
\* copy_outputs prior job among its inputs.
C10_QueuedWithOutputs ==
    [][\A b \in JobIds :
        (/\ DependencyStep(b)
         /\ \A d \in job[b].deps :
                /\ job[d.prior].complete
                /\ ~job[d.prior].failed
                /\ IsBasicDepend(d) \/ d.on_completed) =>
            /\ \A d \in job[b].deps :
                    d.copy_outputs =>
                        \A o \in job[d.prior].outputs :
                            [name |-> o.path, file |-> o.file]
                                \in job'[b].inputs
            /\ MissingInputs(job'[b]) = {} =>
                    format_job_state(job'[b]) = "queued"]_vars

\* C10, afterwards: a satisfied dependency has a complete prior job, and
\* the outputs of a copy_outputs prior job stay among the inputs of B.
C10_SatisfiedKeepsOutputs ==
    \A b \in JobIds :
        \A d \in job[b].deps :
            d.satisfied =>
                /\ job[d.prior].complete
                /\ d.copy_outputs =>
                    \A o \in job[d.prior].outputs :
                        [name |-> o.path, file |-> o.file] \in job[b].inputs

RepeatOf(c) ==
    add_input_response(IF c.state = "inflight" THEN "pending" ELSE c.state)

\* Each commit of a job has made at most one file, and each input name of
\* the job has one input record.
CommitsOnce ==
    \A j \in JobIds :
        /\ \A k \in CommitIds :
                Cardinality({f \in jobfile[j] : f.commit = k}) <= 1
        /\ \A i1, i2 \in job[j].inputs : i1.name = i2.name => i1 = i2

\* What a commit request for a commit_id that was committed before does:
\* with the parameters of the first request it repeats that request's
\* outcome (pending while the file is assembled) and makes no file and no
\* input; with any other parameters it is answered 400 and leaves the
\* earlier commit as it is.
RepeatedCommit(j, lw, k, n, sz, cl) ==
    JobAddInput(j, lw, k, n, sz, cl) /\ ledger[j][k].state # "none" =>
        IF SameParams(ledger[j][k], n, sz, cl)
        THEN /\ resp'.res = RepeatOf(ledger[j][k])
             /\ jobfile' = jobfile
             /\ job' = job
        ELSE /\ resp'.res = "400"
             /\ files' = files
             /\ ledger' = ledger

\* C5: for a job and commit_id, a repeated commit with the same name, size
\* and chunks returns the outcome of the first (pending while the file is
\* assembled), and the file and the input are made at most once; one with
\* a differing parameter is answered 400 and does not alter the earlier
\* commit.
C5_CommitIdempotent ==
    /\ []CommitsOnce
    /\ [][\A j \in JobIds, lw \in BOOLEAN, k \in CommitIds,
            n \in InputNames \cup PathNames, sz \in Sizes,
            cl \in ChunkLists :
                RepeatedCommit(j, lw, k, n, sz, cl)]_vars

\* C5 holds of the requests that arrive before the job is completed, when
\* the bookkeeping of its commits is dropped.
CommitIdempotentUntilComplete ==
    [][\A j \in JobIds, lw \in BOOLEAN, k \in CommitIds,
            n \in InputNames \cup PathNames, sz \in Sizes,
            cl \in ChunkLists :
                ~job[j].complete => RepeatedCommit(j, lw, k, n, sz, cl)]_vars

\* C6: there is at most one lease per job.
C6_OneLeasePerJob ==
    \A j \in JobIds : Cardinality({l \in leases : l.job = j}) <= 1

\* C6 witness: the two factories hold a lease each, on different jobs, and
\* the clock has advanced since the first lease was taken.
C6_Witness ==
    /\ now > 0
    /\ \E l1, l2 \in leases :
        /\ l1.factory # l2.factory
        /\ l1.job # l2.job

\* The incomplete jobs that worker w holds.
Current(w) == {j \in JobsOf(w) : ~job[j].complete}

\* C7: every worker holds at most one incomplete job, and a step that gives
\* a job a worker, by the loop or by a factory's pre-assignment, takes a
\* queued job and a worker of the job's resolved target that is
\* bootstrapped, not deleted, not being recycled and held no job.
C7_OneJobPerWorker ==
    /\ [](\A w \in WorkerIds : Cardinality(Current(w)) <= 1)
    /\ [][\A j \in JobIds :
            job'[j].worker # job[j].worker /\ job'[j].worker # 0 =>
                LET w == job'[j].worker
                IN  /\ Queued(j)
                    /\ worker'[w].created
                    /\ worker'[w].token
                    /\ ~worker'[w].deleted
                    /\ ~worker'[w].recycle
                    /\ ~worker[w].deleted
                    /\ ~worker[w].recycle
                    /\ worker[w].target = job[j].target
                    /\ JobsOf(w) = {}]_vars

\* C7 witness: two jobs of different targets run on the two workers at
\* once.
C7_Witness ==
    \E j1, j2 \in JobIds :
        /\ job[j1].worker # 0
        /\ job[j2].worker # 0
        /\ job[j1].worker # job[j2].worker
        /\ job[j1].target # job[j2].target

\* A dependency whose prior job has ended in a state it does not permit:
\* any dependency by its own flags, and the one the GitHub front-end
\* declares when the prior job has failed.
Refused(d) ==
    /\ job[d.prior].complete
    /\ \/ ~DepPermitted(d)
       \/ IsBasicDepend(d) /\ job[d.prior].failed

\* C11: a job with a dependency whose prior job completed in a state the
\* dependency does not permit (failed with on_failed=false, completed
\* with on_completed=false) is waiting or failed, never queued and never
\* with a worker; and the step of the assignment loop that meets such a
\* dependency completes the job as failed and appends an event of the
\* control plane that says so.
C11_RefusedDependency ==
    /\ [](\A b \in JobIds :
            \A d \in job[b].deps :
                Refused(d) =>
                    /\ format_job_state(job[b]) \in {"waiting", "failed"}
                    /\ job[b].worker = 0)
    /\ [][\A b \in JobIds :
            DependencyStep(b) /\ (\E d \in job[b].deps : Refused(d)) =>
                /\ job'[b].complete
                /\ job'[b].failed
                /\ ~job'[b].waiting
                /\ Len(evlog'[b]) = Len(evlog[b]) + 1
                /\ evlog'[b][Len(evlog'[b])].stream = "control"
                /\ evlog'[b][Len(evlog'[b])].payload = "dependency failed"
                /\ evlog'[b][Len(evlog'[b])] \in events'[b]]_vars

\* C11 witness: the prior job of a dependency as the GitHub front-end
\* declares it has failed, and the dependent job, which nobody cancelled,
\* is failed and carries the event.
C11_Witness ==
    \E b \in JobIds :
        /\ ~job[b].cancelled
        /\ job[b].failed
        /\ \E d \in job[b].deps :
                /\ IsBasicDepend(d)
                /\ job[d.prior].failed
        /\ \E e \in events[b] : e.payload = "dependency failed"

\* No step adds an input to a job that has left waiting, whichever handler
\* or worker takes the step and whatever it had loaded.
NoInputOnceQueued ==
    [][\A j \in JobIds :
        job[j].created /\ ~job[j].waiting =>
            job'[j].inputs = job[j].inputs]_vars

\* A request that finds the job no longer waiting is answered 409: a chunk
\* upload, a synchronous input, and a commit of valid parameters whose
\* commit_id was not committed before.
LateRequestsConflict ==
    [][\A j \in JobIds, n \in InputNames, sz \in Sizes, cl \in ChunkLists :
        /\ (\E d \in ChunkData : JobUploadChunk(j, FALSE, d)) =>
                resp'.res = "409" /\ chunks' = chunks
        /\ JobAddInputSync(j, FALSE, n, sz, cl) =>
                resp'.res = "409" /\ jobfile' = jobfile
        /\ \A k \in CommitIds :
                /\ JobAddInput(j, FALSE, k, n, sz, cl)
                /\ ledger[j][k].state = "none"
                /\ sz <= MaxBytesPerInput
                => resp'.res = "409" /\ files' = files]_vars

\* A commit request of a job that has left waiting, for a commit_id and
\* parameters that were committed before: it returns that commit's outcome.
EarlierCommit(j, lw, k, n, sz, cl) ==
    /\ JobAddInput(j, lw, k, n, sz, cl)
    /\ ~job[j].waiting
    /\ ledger[j][k].state # "none"
    /\ SameParams(ledger[j][k], n, sz, cl)
    => resp'.res = RepeatOf(ledger[j][k])

\* C12: once a job has left waiting no input is added to it, also by a
\* request that races with the commit of the last missing input; chunk
\* upload, synchronous input and a commit with a new commit_id are answered
\* 409, and a commit with the commit_id of an earlier commit still returns
\* that commit's outcome.
C12_NoInputAfterWaiting ==
    /\ NoInputOnceQueued
    /\ LateRequestsConflict
    /\ [][\A j \in JobIds, lw \in BOOLEAN, k \in CommitIds,
            n \in InputNames, sz \in Sizes, cl \in ChunkLists :
                EarlierCommit(j, lw, k, n, sz, cl)]_vars

\* C12 holds of the requests that arrive before the job is completed, when
\* the bookkeeping of its commits is dropped.
NoInputAfterWaitingUntilComplete ==
    /\ NoInputOnceQueued
    /\ LateRequestsConflict
    /\ [][\A j \in JobIds, lw \in BOOLEAN, k \in CommitIds,
            n \in InputNames, sz \in Sizes, cl \in ChunkLists :
                ~job[j].complete => EarlierCommit(j, lw, k, n, sz, cl)]_vars

\* A cancel request that is taken for a job without a worker completes the
\* job at once, as failed and cancelled, and the job is then reported as
\* "failed".
CancelQueuedCompletes ==
    [][\A j \in JobIds :
        JobCancel(j, FALSE) /\ ~job[j].complete /\ job[j].worker = 0 =>
            /\ resp'.res = "204"
            /\ job'[j].complete /\ job'[j].failed /\ job'[j].cancelled
            /\ format_job_state(job'[j]) = "failed"]_vars

\* A cancel request that is taken for a running job sets the flag, and
\* the completion that the worker then reports ends the job as failed.
CancelRunningCompletes ==
    [][\A j \in JobIds :
        /\ JobCancel(j, FALSE) /\ ~job[j].complete /\ job[j].worker # 0 =>
                resp'.res = "204" /\ job'[j].cancelled
        /\ \A w \in WorkerIds, f \in BOOLEAN :
                /\ WorkerJobComplete(w, j, f)
                /\ job[j].cancelled /\ job'[j].complete
                => job'[j].failed /\ job'[j].cancelled]_vars

\* A cancelled job is never given to a worker, and is never reported as
\* "completed".
CancelledNeverAssigned ==
    /\ [][\A j \in JobIds :
            job[j].cancelled =>
                /\ job'[j].cancelled
                /\ job'[j].worker # job[j].worker => job'[j].worker = 0]_vars
    /\ [](\A j \in JobIds :
            job[j].cancelled => format_job_state(job[j]) # "completed")

\* A cancelled job is complete and failed, or is still held by the worker
\* whose next request will find the flag.
CancelledEnds ==
    \A j \in JobIds :
        job[j].cancelled =>
            \/ job[j].complete /\ job[j].failed
            \/ ~job[j].complete /\ job[j].worker # 0

\* C13: after job_cancel on a job that is not complete the job is never
\* newly assigned and ends complete, failed and cancelled: at once when it
\* had no worker, and through its worker otherwise; a cancelled job is
\* never reported as "completed".
C13_CancelEnds ==
    /\ CancelQueuedCompletes
    /\ CancelRunningCompletes
    /\ CancelledNeverAssigned
    /\ []CancelledEnds

\* C13 holds as long as no worker that held a cancelled job is destroyed.
CancelEndsUnlessDestroyed ==
    /\ CancelQueuedCompletes
    /\ CancelRunningCompletes
    /\ CancelledNeverAssigned
    /\ []((\A w \in WorkerIds : ~worker[w].deleted) => CancelledEnds)

\* C14: a cancel request for a job that is complete is answered 409 and
\* leaves the job as it is, whether the handler loaded the job before or
\* after it completed; a job that completed without being cancelled never
\* becomes cancelled.
C14_CancelCompleteRefused ==
    /\ [][\A j \in JobIds, lc \in BOOLEAN :
            JobCancel(j, lc) /\ job[j].complete =>
                resp'.res = "409" /\ job' = job]_vars
    /\ [][\A j \in JobIds :
            job[j].complete =>
                /\ job'[j].complete
                /\ job'[j].failed = job[j].failed
                /\ job'[j].cancelled = job[j].cancelled]_vars

\* A cancel request was refused for a job that a worker had completed
\* without a cancellation.
C14_Witness ==
    /\ resp.op = "job_cancel" /\ resp.res = "409"
    /\ job[resp.job].complete
    /\ ~job[resp.job].failed
    /\ ~job[resp.job].cancelled
    /\ \E e \in events[resp.job] \cup blob[resp.job].events :
            e.payload = "assigned"

\* What a reader of job j is given: its events from the first, and its
\* outputs.
ReadOf(j) ==
    <<load_job_events(job[j], events[j], blob[j], 0),
      load_job_outputs(job[j], blob[j])>>

\* C15: the step that archives a job, and every step after it, leaves the
\* events and the outputs a reader is given as the database gave them
\* just before; a job that is not archived is read from the database and
\* an archived one from its document.
C15_ArchiveTransparent ==
    /\ [][\A j \in JobIds : job'[j].archived => ReadOf(j)' = ReadOf(j)]_vars
    /\ [](\A j \in JobIds :
            /\ ~job[j].archived =>
                    ReadOf(j) = <<job_events(events[j], 0), job[j].outputs>>
            /\ job[j].archived =>
                    ReadOf(j) = <<archive_job_events(blob[j], 0),
                                  archive_job_outputs(blob[j])>>)

\* A job with events and an output was archived and its rows were purged;
\* another job with an output is still live.
C15_Witness ==
    \E j, j2 \in JobIds :
        /\ job[j].archived
        /\ events[j] = {}
        /\ Len(ReadOf(j)[1]) >= 1
        /\ ReadOf(j)[2] # {}
        /\ job[j2].created /\ ~job[j2].archived /\ job[j2].outputs # {}

\* What archive_load owes for a job whose cache file is c and whose stored
\* object is b: when the object is a valid document the read succeeds with
\* a valid document, nothing but a valid document is returned, and no bad
\* file is in the cache afterwards.
LoadsClean(j) ==
    ArchiveLoad(j) =>
        /\ fetch_ok(blob[j]) => resp'.res = "ok" /\ resp'.arg = blob[j]
        /\ resp'.res = "ok" => resp'.arg.form = "good"
        /\ cache'[j].stored => cache'[j].form = "good"

\* C16: a cache file that is missing, fails is_valid or is malformed never
\* poisons the read of an archived job: the bad file is removed, the
\* document is fetched and cached, the read succeeds whenever the object
\* store holds a valid document, and an invalid document is neither
\* returned nor cached.
C16_CacheNeverPoisons ==
    [][\A j \in JobIds : LoadsClean(j)]_vars

\* C16 holds of every cache file that parses.
CacheNeverPoisonsIfParsed ==
    [][\A j \in JobIds : ~cache_unreadable(cache[j]) => LoadsClean(j)]_vars

\* The file record of an output of job j, as committed.
Committed(j, id) == {f \in jobfile[j] : f.id = id}

\* A download of an output of job j answers 200 with the bytes and the
\* size that were committed.
Downloads(j, id, is_file) ==
    JobOutputDownload(j, id, is_file) /\ Committed(j, id) # {}
        /\ (\E o \in job[j].outputs : o.file = <<j, id>>) =>
            /\ resp'.res = "200"
            /\ \A f \in Committed(j, id) :
                    resp'.arg.bytes = f.bytes /\ resp'.arg.size = f.size

\* A staged file goes away only when the object store has its bytes.
UnlinkAfterUpload ==
    [][\A j \in JobIds : \A f \in staged[j] \ staged'[j] : f \in object[j]]_vars

\* C17: a staged output file is unlinked only after it was uploaded, and
\* at every moment after its commit every output of a job is served by
\* file_response with the bytes and size that were committed, before and
\* after archiving.
C17_OutputsReadable ==
    /\ UnlinkAfterUpload
    /\ [][\A j \in JobIds, id \in FileIds, sl \in BOOLEAN :
            Downloads(j, id, sl)]_vars

\* C17 holds of every download whose is_file test and open are not
\* separated by the unlinking of the file.
OutputsReadableUnlessUnlinked ==
    /\ UnlinkAfterUpload
    /\ [][\A j \in JobIds, id \in FileIds, sl \in BOOLEAN :
            sl = (FileOf(staged[j], id) # {}) => Downloads(j, id, sl)]_vars

\* The store entries of job j, in the database or in its document.
StoreOf(j) == IF job[j].archived THEN blob[j].store ELSE jobstore[j]

\* Two sets of entries that differ at most in the values of secrets.
SameButSecrets(S, T) ==
    /\ \A e \in S : \E f \in T :
            /\ f.name = e.name /\ f.secret = e.secret /\ f.source = e.source
            /\ e.secret \/ f.value = e.value
    /\ \A f \in T : \E e \in S : e.name = f.name

\* C18: the response to a read of the job store carries no value for a
\* secret entry, for a live and for an archived job, and the responses for
\* two jobs whose entries differ only in the values of secrets are equal.
C18_SecretsStayInside ==
    /\ [][\A j \in JobIds, la \in BOOLEAN :
            JobStoreGetAll(j, la) =>
                /\ \A e \in resp'.arg : e.secret => e.value = NoValue
                /\ la = job[j].archived =>
                        {e.name : e \in resp'.arg} =
                            {e.name : e \in StoreOf(j)}]_vars
    /\ [](\A j1, j2 \in JobIds :
            SameButSecrets(StoreOf(j1), StoreOf(j2)) =>
                job_store_get_all(job[j1].archived, jobstore[j1], blob[j1])
                = job_store_get_all(job[j2].archived, jobstore[j2],
                                    blob[j2]))

\* The store of an archived job was read and it holds a secret, while a
\* live job holds the same secret with another value.
C18_Witness ==
    /\ resp.op = "job_store_get_all"
    /\ job[resp.job].archived
    /\ \E e \in blob[resp.job].store : e.secret /\ e.value # NoValue
    /\ \E e \in resp.arg : e.secret
    /\ \E j2 \in JobIds :
        /\ ~job[j2].archived
        /\ \E e \in blob[resp.job].store, f \in jobstore[j2] :
                e.name = f.name /\ e.secret /\ f.secret /\ e.value # f.value

\* A request of user u to a job-scoped endpoint of job j.
Request(u, j) ==
    \/ JobGetFor(u, j)
    \/ \E lc \in BOOLEAN : JobCancelFor(u, j, lc)
    \/ \E lw \in BOOLEAN, d \in ChunkData : JobUploadChunkFor(u, j, lw, d)
    \/ \E lw \in BOOLEAN, k \in CommitIds, n \in InputNames \cup PathNames,
          cl \in ChunkLists :
        JobAddInputFor(u, j, lw, k, n, 1, cl)
    \/ \E lw \in BOOLEAN, n \in InputNames, cl \in ChunkLists :
        JobAddInputSyncFor(u, j, lw, n, 1, cl)
    \/ \E lc \in BOOLEAN, n \in StoreNames, sec \in BOOLEAN :
        JobStorePutFor(u, j, lc, n, "v1", sec)
    \/ \E la \in BOOLEAN : JobStoreGetAllFor(u, j, la)
    \/ \E id \in FileIds, sl \in BOOLEAN : JobOutputDownloadFor(u, j, id, sl)
    \/ \E id \in FileIds, ex \in Expiries :
        JobOutputSignedUrlFor(u, j, id, ex)

\* The user may have the job: it is its own, or the user holds
\* admin.job.read.
Permitted(u, j) == job[j].owner = u.name \/ "admin.job.read" \in u.privs

\* Nothing of the state but the response changes.
OnlyResponds ==
    UNCHANGED <<job, events, worker, leases, now, files, chunks, jobfile,
                blob, evlog, ledger, cache, staged, object, jobstore, user,
                   targets, published,
                   delivery, webhook, dblock, ext_vars>>

MayDelegate(t) == \E u \in user : u.name = t /\ "delegate" \in u.privs

\* There is one user of a name at most.
OneUserPerName == \A u1, u2 \in user : u1.name = u2.name => u1 = u2

\* A request acts as another user than the owner of its token only with
\* the header and the privilege delegate; the user it names is then in the
\* table, and is the only user the request may have made.
DelegatesByPrivilege(t, h) ==
    Whoami(t, h) /\ resp'.res = "ok" =>
        /\ resp'.arg # t => h.present /\ MayDelegate(t)
        /\ \E u \in user' : u.name = resp'.arg
        /\ \A u \in user' \ user : u.name = resp'.arg /\ u.name # t

\* A request with the header whose token's owner lacks delegate is
\* answered 401 and makes no user.
RefusesWithoutPrivilege(t, h) ==
    Whoami(t, h) /\ h.present /\ ~MayDelegate(t) =>
        resp'.res = "401" /\ user' = user

\* C20: require_user yields another user than the owner of the token only
\* with the header X-Buildomat-Delegate and the privilege delegate; the
\* named user is made if missing and there is one user per name at most;
\* a request with the header from a user without delegate is answered 401
\* and makes no user.
C20_Delegation ==
    /\ []OneUserPerName
    /\ [][\A t \in Tokens, h \in Headers :
            DelegatesByPrivilege(t, h) /\ RefusesWithoutPrivilege(t, h)]_vars

\* C20 holds of every request whose header, if any, is a string of
\* visible ASCII.
DelegationIfReadable ==
    /\ []OneUserPerName
    /\ [][\A t \in Tokens, h \in Headers :
            /\ DelegatesByPrivilege(t, h)
            /\ h.readable => RefusesWithoutPrivilege(t, h)]_vars

\* The redirects of the target table lead from a row only to rows that
\* were made before it: no row is reached from itself.
RECURSIVE Reaches(_, _, _)
Reaches(t, id, n) ==
    /\ n > 0
    /\ t.redirect_to # "none"
    /\ \/ t.redirect_to = id
       \/ Reaches(target_by_id(targets, t.redirect_to), id, n - 1)

Acyclic == \A t \in targets : ~Reaches(t, t.id, Cardinality(targets))

RulePrefixes ==
    {<<>>, <<"!">>, <<"=">>, <<"%">>, <<"=", "%">>, <<"%", "=">>}

\* The prefixes that make a rule invalid whatever follows them.
BadRulePrefixes ==
    {<<"!", "!">>, <<"=", "=">>, <<"%", "%">>, <<"!", "=">>, <<"!", "%">>,
     <<"=", "!">>, <<"%", "!">>, <<"=", "%", "=">>, <<"%", "=", "%">>,
     <<"=", "%", "!">>, <<"%", "=", "!">>}

HasPrefix(input, p) ==
    Len(input) >= Len(p) /\ SubSeq(input, 1, Len(p)) = p

Has(p, c) == \E i \in 1..Len(p) : p[i] = c

\* input is the prefix p followed by a path that starts with "/".
PrefixThenPath(input, p) ==
    /\ HasPrefix(input, p)
    /\ Len(input) > Len(p)
    /\ input[Len(p) + 1] = "/"

\* C25: parse_output_rule accepts exactly a permitted sigil prefix followed
\* by an absolute path, and returns the path with ignore, require_match and
\* size_change_ok set exactly for the sigils !, = and % of the prefix; every
\* other string, among them the empty one, a relative path and one that
\* begins with a forbidden prefix, is answered with 400.
C25_OutputRuleGrammar ==
    resp.op = "parse_output_rule" =>
        LET input == resp.arg.input
            r == resp.arg.parsed
        IN  /\ r.res \in {"ok", "400"}
            /\ r.res = "ok" <=>
                    \E p \in RulePrefixes : PrefixThenPath(input, p)
            /\ \A p \in RulePrefixes :
                    PrefixThenPath(input, p) =>
                        /\ r.rule = SubSeq(input, Len(p) + 1, Len(input))
                        /\ r.ignore = Has(p, "!")
                        /\ r.require_match = Has(p, "=")
                        /\ r.size_change_ok = Has(p, "%")
            /\ (\/ input = <<>>
                \/ input[1] = "a"
                \/ \E p \in RulePrefixes :
                        /\ HasPrefix(input, p)
                        /\ Len(input) > Len(p)
                        /\ input[Len(p) + 1] = "a"
                \/ \E p \in BadRulePrefixes : HasPrefix(input, p))
                    => r.res = "400"

\* C25 witness: the rule "=%/a" was parsed, and the rules "%=!/" and "!a"
\* are among those the parser is given.
C25_Witness ==
    /\ resp.op = "parse_output_rule"
    /\ resp.arg.input = <<"=", "%", "/", "a">>
    /\ resp.arg.parsed =
            [res |-> "ok", rule |-> <<"/", "a">>, ignore |-> FALSE,
             require_match |-> TRUE, size_change_ok |-> TRUE]
    /\ {<<"%", "=", "!", "/">>, <<"!", "a">>} \subseteq RuleStrings

\* The row of the user table with the name.
UserNamed(name) == CHOOSE u \in user : u.name = name

\* The body keeps to the limits on tasks, inputs and tags.
WithinLimits(b) ==
    /\ Len(b.tasks) <= MaxTasks
    /\ Len(b.inputs) <= MaxInputs
    /\ Cardinality(b.tags) <= MaxTags
    /\ tag_bytes(b.tags) <= MaxTagBytes
    /\ \A t \in b.tags : t.name_len > 0 /\ t.name_ok

RulesParse(b) ==
    \A i \in 1..Len(b.output_rules) :
        parse_output_rule(b.output_rules[i]).res = "ok"

\* The target rows that the name of the request leads to: the row of the
\* name, or the row its redirect names.
Resolved(b) ==
    {t \in targets :
        /\ t.redirect_to = "none"
        /\ \/ t.name = b.target
           \/ \E s \in targets : s.name = b.target /\ s.redirect_to = t.id}

Holds(u, t) == t.privilege = "none" \/ t.privilege \in u.privs

\* C21: job_submit creates a job only if the requested target resolves and
\* the user holds the privilege that the resolved target requires.  A
\* submission within the limits whose target does not resolve is answered
\* with 400, one whose target requires a privilege the user lacks with
\* 403, and neither creates a job; a submission by a user who holds the
\* privilege (also one granted after a refusal) is answered with 201 and
\* creates the job on the resolved target.
C21_TargetGate ==
    /\ [](resp.op = "job_submit" =>
            LET b == resp.arg.body
                u == UserNamed(resp.arg.user)
            IN  /\ resp.res = "201" =>
                    /\ \E t \in Resolved(b) :
                        Holds(u, t) /\ job[resp.job].target = t.id
                    /\ job[resp.job].owner = u.name
                /\ WithinLimits(b) =>
                    /\ Resolved(b) = {} => resp.res = "400"
                    /\ (\E t \in Resolved(b) : ~Holds(u, t)) =>
                            resp.res = "403"
                    /\ (RulesParse(b) /\ \E t \in Resolved(b) : Holds(u, t))
                            => resp.res = "201")
    /\ [][resp'.op = "job_submit" =>
            IF resp'.res = "201"
            THEN /\ ~job[resp'.job].created
                 /\ \A j \in JobIds \ {resp'.job} : job'[j] = job[j]
            ELSE job' = job]_vars

\* C21 witness: a user who was granted use.gold has submitted a job to
\* the target "gold", which requires it, and the job was created.
C21_Witness ==
    /\ resp.op = "job_submit"
    /\ resp.res = "201"
    /\ resp.arg.body.target = "gold"
    /\ \E t \in targets :
        /\ t.name = "gold"
        /\ t.privilege = "use.gold"
        /\ job[resp.job].target = t.id
    /\ "use.gold" \in UserNamed(resp.arg.user).privs
    /\ job[resp.job].owner = resp.arg.user

\* The numbers of tasks, inputs and tags of the body are within bounds.
CountsWithin(b) ==
    /\ Len(b.tasks) <= MaxTasks
    /\ Len(b.inputs) <= MaxInputs
    /\ Cardinality(b.tags) <= MaxTags

\* A refused submission creates no job, an accepted one creates one.
CreatesIffAccepted ==
    [][resp'.op = "job_submit" =>
        IF resp'.res = "201"
        THEN ~job[resp'.job].created /\ job'[resp'.job].created
        ELSE job' = job]_vars

\* C24 as stated: a submission is accepted only with at most 100 tasks, 25
\* inputs and 100 tags and with tag names and values of fewer than 131072
\* bytes in all; any other is answered with 400 and creates no job.
C24_LimitsStrict ==
    /\ [](resp.op = "job_submit" =>
            LET b == resp.arg.body
            IN  IF CountsWithin(b) /\ tag_bytes(b.tags) < MaxTagBytes
                THEN TRUE
                ELSE resp.res = "400")
    /\ CreatesIffAccepted

\* C24 as the handler has it: a submission is accepted only with at most
\* 100 tasks, 25 inputs and 100 tags and with tag names and values of at
\* most 131072 bytes in all; any other is answered with 400 and creates no
\* job, and the limits turn no submission away that keeps to them.
C24_LimitsInclusive ==
    /\ [](resp.op = "job_submit" =>
            LET b == resp.arg.body
            IN  IF CountsWithin(b) /\ tag_bytes(b.tags) <= MaxTagBytes
                THEN (\A t \in b.tags : t.name_len > 0 /\ t.name_ok)
                        => resp.res = "201"
                ELSE resp.res = "400")
    /\ CreatesIffAccepted

\* C24 witness: a submission of 100 tasks and 25 inputs whose one tag has
\* 131072 bytes was accepted, and its job waits for the 25 inputs.
C24_Witness ==
    /\ resp.op = "job_submit"
    /\ resp.res = "201"
    /\ Len(resp.arg.body.tasks) = MaxTasks
    /\ Len(resp.arg.body.inputs) = MaxInputs
    /\ tag_bytes(resp.arg.body.tags) = MaxTagBytes
    /\ Cardinality(job[resp.job].declared) = MaxInputs
    /\ job[resp.job].waiting

\* The last request named a job id that no job has.
UnknownJobRequested ==
    /\ resp.op \in {"job_get", "job_cancel", "job_add_input"}
    /\ resp.job \in PathIds
    /\ ~job_by_id_ok(resp.job)

\* C23: a request that names a job id unknown to the store is answered
\* with 404, and the message of every 500 response begins with
\* "internal error: ".
C23_ErrorMapping ==
    /\ UnknownJobRequested => resp.res = "404"
    /\ resp.res = "500" => resp.arg.message[1] = "internal error: "

\* A request that names an unknown job id is answered with an error of
\* or_500, 409 or 500, and changes nothing.
UnknownJobRefused ==
    /\ [](UnknownJobRequested => resp.res \in {"409", "500"})
    /\ [][(resp'.job \in PathIds /\ ~job_by_id_ok(resp'.job)) =>
            UNCHANGED <<job, files, jobfile, chunks>>]_vars

\* The characters [A-Za-z0-9._-] among those of the requests.
IdChars == {"a", "z", "A", "Z", "0", "9", ".", "_", "-"}

\* The identifier matches [A-Za-z0-9._-]{2,48}.
Matches(n) ==
    /\ Len(n) >= 2
    /\ Len(n) <= 48
    /\ {n[i] : i \in 1..Len(n)} \subseteq IdChars

\* C26: job_output_publish goes on to publish only when series, version
\* and name each have 2 to 48 characters, all in [A-Za-z0-9._-]; when one
\* of them has 1 or 49 characters or holds "/" or another character, the
\* answer is 400 and nothing is published.  With safe identifiers the
\* owner's request for an output of the job publishes it under them.
C26_PublishIdentifiers ==
    resp.op = "job_output_publish" =>
        LET b == resp.arg.body
            ok == Matches(b.series) /\ Matches(b.version) /\ Matches(b.name)
        IN  /\ ~ok => resp.res = "400" /\ published = {}
            /\ ok => resp.res # "400"
            /\ published # {} => ok /\ resp.res = "204"
            /\ (ok /\ resp.arg.user = "u1" /\ resp.arg.output = 1) =>
                    published =
                        {[job |-> 1, file |-> <<1, 1>>, series |-> b.series,
                          version |-> b.version, name |-> b.name]}

\* C26 witness: an output was published under a series of 2 characters, a
\* version of 48 characters and the name "..".
C26_Witness ==
    /\ resp.op = "job_output_publish"
    /\ resp.res = "204"
    /\ \E p \in published :
        /\ Len(p.series) = 2
        /\ Len(p.version) = 48
        /\ p.name = <<".", ".">>

\* The files of the inputs of a job, and those made by the synchronous
\* endpoint.
InputFiles == UNION {jobfile[j] : j \in JobIds}
SyncFiles == {f \in InputFiles : f.commit = "sync"}

\* C27: no input of a size above max_bytes_per_input is ever accepted,
\* through the chunked endpoint or the synchronous one, and the
\* synchronous endpoint accepts no size above 1 GiB and no negative size.
C27_SizeCeilings ==
    /\ \A f \in InputFiles : f.size <= MaxBytesPerInput
    /\ \A f \in SyncFiles : f.size >= 0 /\ f.size <= MaxBytesSync

\* The chunked endpoint keeps to max_bytes_per_input, the synchronous one
\* to 1 GiB.
ChunkedCapped ==
    /\ \A f \in InputFiles \ SyncFiles : f.size <= MaxBytesPerInput
    /\ \A j \in JobIds, k \in CommitIds :
            files[j].commits[k].state # "none" =>
                files[j].commits[k].size <= MaxBytesPerInput
    /\ \A f \in SyncFiles : f.size >= 0 /\ f.size <= MaxBytesSync

\* The synchronous endpoint answers a negative size and a size above 1 GiB
\* with 400, and takes a size of 1 GiB whose chunks add up to it.
SyncBoundary ==
    [][\A j \in JobIds, n \in InputNames, sz \in SyncSizes,
         cl \in SizeChunkLists :
        JobAddInputSync(j, TRUE, n, sz, cl) =>
            /\ (sz < 0 \/ sz > MaxBytesSync) =>
                    resp'.res = "400" /\ jobfile' = jobfile
            /\ (sz = MaxBytesSync /\ commit_file_ok(chunks[j], cl, sz)
                    /\ job[j].waiting) =>
                    resp'.res = "204"]_vars

\* An input of exactly 1 GiB was added through the synchronous endpoint.
SyncGiBAccepted ==
    /\ resp.op = "job_add_input_sync"
    /\ resp.res = "204"
    /\ \E f \in SyncFiles :
        f.size = MaxBytesSync /\ chunk_len(f.bytes) = MaxBytesSync

\* The byte at place p of bytes written as runs.
RECURSIVE ByteAt(_, _)
ByteAt(runs, p) ==
    IF p <= Head(runs)[2] THEN Head(runs)[1]
    ELSE ByteAt(Tail(runs), p - Head(runs)[2])

\* The places of a chunk that are compared: all of a short chunk, the
\* first and the last of a long one.
Places(n) == IF n <= 4 THEN 1..n ELSE {1, n}

\* The chunks of the list exist and their sizes add up to the size.
ChunksAddUp(store, cl, size) ==
    /\ \A i \in 1..Len(cl) : cl[i] \in 1..Len(store)
    /\ SumSeq([i \in 1..Len(cl) |-> chunk_len(store[cl[i]])]) = size

\* The file holds the chunks of the list one after the other, in the
\* order of the list, and nothing else.
IsConcatenation(f, store, cl) ==
    /\ chunk_len(f.bytes) = f.size
    /\ f.size = SumSeq([i \in 1..Len(cl) |-> chunk_len(store[cl[i]])])
    /\ \A i \in 1..Len(cl) :
        LET before == SumSeq([h \in 1..(i - 1) |-> chunk_len(store[cl[h]])])
        IN  \A p \in Places(chunk_len(store[cl[i]])) :
                ByteAt(f.bytes, before + p) = ByteAt(store[cl[i]], p)

\* What a commit of the chunk list cl with the size sz did to the files
\* of job j.
CommitOutcome(j, cl, sz) ==
    /\ jobfile[j] \subseteq jobfile'[j]
    /\ Cardinality(jobfile'[j] \ jobfile[j]) <= 1
    /\ \A f \in jobfile'[j] \ jobfile[j] :
        /\ ChunksAddUp(chunks[j], cl, sz)
        /\ f.size = sz
        /\ IsConcatenation(f, chunks[j], cl)
    /\ ~ChunksAddUp(chunks[j], cl, sz) => jobfile' = jobfile

\* C28: a commit of chunks that write_chunk stored, with an expected size
\* equal to the sum of their sizes, makes a file that is byte for byte the
\* chunks in the order of the list and has the expected size; with another
\* expected size or a chunk that does not exist the commit fails and
\* makes no file.  The commit is made by the synchronous endpoint and by
\* the files worker.
C28_CommitConcatenates ==
    [][\A j \in JobIds :
        /\ resp'.op = "job_add_input_sync" =>
            \A n \in InputNames, sz \in SyncSizes, cl \in SizeChunkLists :
                JobAddInputSync(j, TRUE, n, sz, cl) =>
                    /\ CommitOutcome(j, cl, sz)
                    /\ ~ChunksAddUp(chunks[j], cl, sz) => resp'.res = "400"
                    /\ (ChunksAddUp(chunks[j], cl, sz) /\ job[j].waiting
                            /\ sz <= MaxBytesSync) =>
                        jobfile' # jobfile
        /\ \A k \in CommitIds :
            FilesWorker(j, k) =>
                LET c == files[j].commits[k]
                IN  /\ CommitOutcome(j, c.chunks, c.size)
                    /\ ~ChunksAddUp(chunks[j], c.chunks, c.size) =>
                            files'[j].commits[k].state = "failed"
                    /\ (ChunksAddUp(chunks[j], c.chunks, c.size)
                            /\ job[j].waiting) =>
                        /\ jobfile' # jobfile
                        /\ files'[j].commits[k].state = "ok"]_vars

\* C28 witness: a file was made of the chunk 2 3 followed by the chunk 1.
C28_Witness ==
    \E j \in JobIds : \E f \in jobfile[j] :
        /\ Len(chunks[j]) = 2
        /\ f.bytes = << <<2, 1>>, <<3, 1>>, <<1, 1>> >>
        /\ f.size = 3

\* The requests that passed the checks of the signature, the body and the
\* headers.
Stored(r) ==
    /\ webhook[r].pc = "done"
    /\ webhook[r].res = "200"
    /\ Delivered(delivery, webhook[r].uuid)

WebhookSafe ==
    \* a uuid is stored at most once
    /\ \A i, h \in 1..Len(delivery) : delivery[i] = delivery[h] => i = h
    /\ \A r \in RequestIds :
        LET w == webhook[r]
        IN  \* a request that found the lock is asleep, not answered
            /\ w.last = "locked" <=> w.pc = "sleep"
            /\ w.res = "500" => w.last \in {"none", "other"}
            \* one sleep of 500 ms before each try but the first
            /\ w.tries >= 1 => w.slept = SleepMs * (w.tries - 1)
            \* success is answered when the uuid is in the table, under
            \* the seq that was returned
            /\ w.res = "200" =>
                    /\ Delivered(delivery, w.uuid)
                    /\ delivery[w.seq] = w.uuid
            \* a replayed uuid is acknowledged and not stored again
            /\ w.res = "200" =>
                    LET same == {r2 \in RequestIds :
                                    /\ webhook[r2].res = "200"
                                    /\ webhook[r2].uuid = w.uuid}
                    IN  /\ \A r2 \in same : webhook[r2].seq = w.seq
                        /\ Cardinality({r2 \in same : webhook[r2].new}) = 1

\* C29: a webhook delivery with a valid signature whose store_delivery
\* finds the database locked sleeps 500 ms and tries again: it is never
\* answered with an error for the lock, and when the lock is released for
\* good the request is answered, with success and the delivery stored
\* unless the store failed in another way.  A uuid is stored once, and a
\* replayed uuid is acknowledged with success without a second row.
C29_WebhookRetries ==
    /\ []WebhookSafe
    /\ (<>[]~dblock) =>
            \A r \in RequestIds :
                (webhook[r].pc = "sleep") ~>
                    (Stored(r) \/ (webhook[r].pc = "done"
                                    /\ webhook[r].last = "other"))

\* C29 witness: a delivery was stored at the third try, after two sleeps,
\* and its replay was acknowledged without a second row.
C29_Witness ==
    \E r, r2 \in RequestIds :
        /\ Stored(r) /\ webhook[r].tries = 3 /\ webhook[r].slept = 1000
        /\ webhook[r].new
        /\ Stored(r2) /\ ~webhook[r2].new
        /\ webhook[r2].uuid = webhook[r].uuid
        /\ Len(delivery) = 1

\* What may stand before the payload in the line of an event.
LineStarts(stream) ==
    {<<"|", " ">>, <<"|", "C", "|", " ">>, StreamChars(stream) \o <<":", " ">>}

\* The payload as the tail is to show it: whole up to 100 characters, the
\* first 100 characters and " [...]" beyond.
Shown(payload) ==
    IF Len(payload) <= 100
    THEN payload
    ELSE SubSeq(payload, 1, 100) \o <<" ", "[", ".", ".", ".", "]">>

\* C30: in the tail of the check run the line of every event whose
\* payload is longer than 100 characters holds the first 100 characters
\* of the payload followed by " [...]", and a payload of at most 100
\* characters appears whole.
C30_TailTruncation ==
    resp.op = "tail" =>
        \E start \in LineStarts(resp.arg.stream) :
            resp.arg.line = start \o Shown(resp.arg.payload)

\* The lines of stdout, stderr and the console are cut as C30 says.
OutputLinesTruncated ==
    (resp.op = "tail" /\ resp.arg.stream \in {"stdout", "stderr", "console"})
    => resp.arg.line =
        (IF resp.arg.stream = "console" THEN <<"|", "C", "|", " ">>
         ELSE <<"|", " ">>) \o Shown(resp.arg.payload)

\* The line of an event of another stream holds the whole payload.
OtherLinesWhole ==
    (resp.op = "tail"
        /\ resp.arg.stream \notin {"stdout", "stderr", "console"})
    => /\ Len(resp.arg.line) =
            Len(StreamChars(resp.arg.stream)) + 2 + Len(resp.arg.payload)
       /\ resp.arg.line =
            StreamChars(resp.arg.stream) \o <<":", " ">> \o resp.arg.payload

\* C31: with --dry-run, cache upload removes and changes nothing under
\* the target directory, whatever the directory holds.
C31_DryRunChangesNothing ==
    resp.op = "cache_upload" /\ resp.arg.dry_run =>
        target_dir = resp.arg.before

\* With --dry-run the entries of debug/deps and debug/.fingerprint stay;
\* without it the entries of the workspace's packages and those without a
\* "-" go and those of the dependencies stay.
DryRunKeepsEntries ==
    resp.op = "cache_upload" =>
        LET b == resp.arg.before
        IN  /\ resp.arg.dry_run =>
                target_dir.deps = b.deps
                    /\ target_dir.fingerprint = b.fingerprint
            /\ (~resp.arg.dry_run /\ resp.res = "ok") =>
                target_dir.deps = b.deps \cap {<<"d", "-", "h">>}
                    /\ target_dir.fingerprint =
                            b.fingerprint \cap {<<"d", "-", "h">>}
            /\ resp.res = "err" => target_dir = b

\* An upload of the job is in flight.
UploadInFlight(j) ==
    \E k \in CommitIds : files[j].commits[k].state = "inflight"

\* The bookkeeping of the job's uploads is dropped in this step.
Forgets(j) == files[j] # NoFiles /\ files'[j] = NoFiles

\* C32: complete_job does not complete a job while one of its uploads is
\* in flight: it returns an error, and the job's complete, failed and
\* worker fields and the bookkeeping of the uploads stay as they are; the
\* bookkeeping is dropped only in a call in which job_complete returned
\* without error.
C32_NoCompleteInFlight ==
    [][\A w \in WorkerIds, j \in JobIds :
        /\ (WorkerJobComplete(w, j, FALSE) /\ UploadInFlight(j)) =>
                /\ resp'.res = "error"
                /\ job'[j].complete = job[j].complete
                /\ job'[j].failed = job[j].failed
                /\ job'[j].worker = job[j].worker
                /\ files' = files
        /\ (WorkerJobComplete(w, j, FALSE) /\ Forgets(j)) =>
                /\ resp'.res \in {"true", "false"}
                /\ job'[j].complete
        /\ WorkerJobCompleteDbError(w, j, FALSE) =>
                /\ resp'.res = "error"
                /\ ~Forgets(j)
                /\ job' = job]_vars

\* C32 witness: the worker's completion was declined for a running job
\* with an upload in flight.
C32_Witness ==
    \E j \in JobIds :
        /\ resp = Done("worker_job_complete", j, "error")
        /\ UploadInFlight(j)
        /\ job[j].worker # 0
        /\ ~job[j].complete

\* The events of the job from minseq on, as they were accepted.
AcceptedFrom(j, minseq) == SubSeq(evlog[j], minseq + 1, Len(evlog[j]))

\* C33: a read of a job's events or outputs returns all of them, also when
\* the handler loaded the job row before the job was archived and its rows
\* purged, and reads afterwards.
C33_ReadsSurviveArchiving ==
    /\ resp.op = "job_events_get" =>
            resp.arg.events = AcceptedFrom(resp.job, resp.arg.minseq)
    /\ resp.op = "job_outputs_get" =>
            resp.arg.outputs = job[resp.job].outputs

\* A read that loaded the row as it is now returns everything, and so
\* does a read of the outputs with a row loaded before the archiving.
ReadsOfCurrentRow ==
    /\ (resp.op = "job_events_get"
            /\ resp.arg.events # AcceptedFrom(resp.job, resp.arg.minseq)) =>
            /\ job[resp.job].archived
            /\ resp.arg.events = <<>>
    /\ resp.op = "job_outputs_get" =>
            resp.arg.outputs = job[resp.job].outputs
    /\ \A j \in JobIds, minseq \in 0..1 :
            load_job_events(job[j], events[j], blob[j], minseq)
                = AcceptedFrom(j, minseq)

\* C34: basic::cancel never sends a job_cancel request for a job whose
\* state is "completed" or "failed": for such a job cancel returns Ok,
\* sends no cancel request and leaves the private state of the check run as
\* it was.  Violated: cancel compares the state with "complete", so for a
\* "completed" job it sends job_cancel, which the backend refuses, and
\* returns that error.
C34_CancelSparesFinishedJobs ==
    (resp.op = "cancel" /\ resp.arg.state \in {"completed", "failed"})
        => /\ ~resp.arg.sent
           /\ resp.res = "ok"
           /\ checkrun.private = resp.arg.before

\* What does hold: a job that "failed" gets no cancel request.
CancelSparesFailedJobs ==
    (resp.op = "cancel" /\ resp.arg.state = "failed")
        => /\ ~resp.arg.sent
           /\ resp.res = "ok"
           /\ checkrun.private = resp.arg.before

\* The "failed" case happens.
CancelOfFailedJob == resp.op = "cancel" /\ resp.arg.state = "failed"

\* C35: over any sequence of basic::run calls on a check run, calls that
\* fail partway and are retried included, the check run submits at most one
\* buildomat job.  Violated: the job is submitted before buildomat_id is
\* written, so a run whose update_check_run fails has created a job that
\* the check run does not know, and the next run submits another.
C35_OneJobPerCheckRun == Cardinality(submitted) <= 1

\* What does hold: a buildomat_id that was stored never changes, and it is
\* the id of a job that the check run submitted.
BuildomatIdKept ==
    /\ [](checkrun.private.buildomat_id # 0
            => checkrun.private.buildomat_id \in submitted)
    /\ [][checkrun.private.buildomat_id # 0
            => checkrun'.private.buildomat_id
                    = checkrun.private.buildomat_id]_vars

\* A run has stored the id of the job it submitted.
BuildomatIdStored ==
    /\ resp.op = "run" /\ resp.res = "true"
    /\ resp.arg.before.buildomat_id = 0
    /\ checkrun.private.buildomat_id # 0

\* The seqs of the events that the job of the check run has logged.
LoggedSeqs ==
    IF checkrun.private.buildomat_id = 0
    THEN {}
    ELSE {e.seq : e \in Range(evlog[checkrun.private.buildomat_id])}

\* C36: every event of the job is added to the tail view exactly once and
\* in seq order: once the check run is complete, the lines that were pushed
\* onto events_tail are the events of the job, each once, in ascending
\* order.  Violated through the late read of C33: a run that reads the
\* events just as the job is archived gets an empty list together with the
\* state "completed", completes the check run and never reads the events
\* that it has not seen.
C36_EveryEventOnce ==
    (checkrun.private.complete /\ checkrun.private.buildomat_id # 0)
        => /\ Range(checkrun.private.added) = LoggedSeqs
           /\ \A i \in 1..(Len(checkrun.private.added) - 1) :
                checkrun.private.added[i] < checkrun.private.added[i + 1]

\* What does hold across successive runs: event_minseq never decreases and
\* is one more than the highest seq processed (0 before any), no event is
\* added twice or out of order, only events of the job are added, and
\* events_tail holds the last lines added, at most 25 of them.
TailViewInOrder ==
    /\ [](LET p == checkrun.private
              n == Len(p.added)
          IN  /\ p.event_minseq = IF n = 0 THEN 0 ELSE p.added[n] + 1
              /\ \A i \in 1..(n - 1) : p.added[i] < p.added[i + 1]
              /\ Range(p.added) \subseteq LoggedSeqs
              /\ Len(p.events_tail) <= MaxTail
              /\ Len(p.events_tail) = Min({n, MaxTail})
              /\ \A i \in 1..Len(p.events_tail) :
                    p.events_tail[i] = p.added[n - Len(p.events_tail) + i])
    /\ [][checkrun'.private.event_minseq
            >= checkrun.private.event_minseq]_vars

\* A run has popped lines from the front of events_tail.
TailViewTrimmed ==
    /\ Len(checkrun.private.added) > MaxTail
    /\ Len(checkrun.private.events_tail) = MaxTail

\* C37: in every private state of a check run, complete with no error
\* means that job_state is "completed" or "failed"; so flush never unwraps
\* a missing job_state, it reports success only for a complete check run
\* without an error whose job state is "completed", and run on a complete
\* check run returns false and leaves the private state as it was.
C37_CompleteHasOutcome ==
    /\ (checkrun.private.complete /\ checkrun.private.error = "none")
            => checkrun.private.job_state \in {"completed", "failed"}
    /\ resp.op = "flush"
            => /\ resp.res # "panic"
               /\ resp.res = "success"
                    => /\ resp.arg.before.complete
                       /\ resp.arg.before.error = "none"
                       /\ resp.arg.before.job_state = "completed"
    /\ (resp.op = "run" /\ resp.arg.before.complete)
            => /\ resp.res = "false"
               /\ checkrun.private = resp.arg.before

\* A complete check run without an error is flushed as a success.
C37_Witness ==
    /\ resp.op = "flush"
    /\ resp.arg.before.complete
    /\ resp.arg.before.error = "none"
    /\ resp.res = "success"

\* A check run that was completed with an error before it had a job is
\* flushed.
FlushWithoutJobState ==
    /\ resp.op = "flush"
    /\ resp.arg.before.complete
    /\ resp.arg.before.job_state = "none"

\* run is called on a complete check run.
RunOnCompleteCheckRun == resp.op = "run" /\ resp.arg.before.complete

\* C38: for every output rule that parse_output_rule accepts, the string
\* that format_job shows for the stored rule (the sigils in the order !, %,
\* = and then the pattern) parses again to the same rule, ignore,
\* require_match and size_change_ok; no accepted rule has ignore together
\* with require_match or size_change_ok, and the assertion of
\* parse_output_rule never fails.
C38_RuleRoundTrip ==
    /\ resp.op = "parse_output_rule"
            => /\ resp.res # "panic"
               /\ resp.arg.parsed.ignore
                    => /\ ~resp.arg.parsed.require_match
                       /\ ~resp.arg.parsed.size_change_ok
    /\ resp.op = "format_job"
            => /\ resp.arg.again = resp.arg.parsed
               /\ resp.arg.again.res = "ok"

\* A rule with both sigils, written "=%", is shown as "%=" and parsed
\* again.
C38_Witness ==
    /\ resp.op = "format_job"
    /\ resp.arg.parsed.require_match
    /\ resp.arg.parsed.size_change_ok
    /\ resp.arg.shown # resp.arg.input

\* A rule with the sigil ! is shown and parsed again.
IgnoreRuleShown == resp.op = "format_job" /\ resp.arg.parsed.ignore

\* A page was served: the answer is the page or the artefact.
Served == resp.op \in {"artefact", "details"} /\ resp.res = "200"

\* C39: the artefacts and the details page of a check run are served only
\* to a request whose url_key is the url_key of the check suite that the
\* check run belongs to; a request that pairs a check run with the id and
\* the url_key of another check suite is refused.  Violated: both pages
\* compare the url_key with the suite named in the path and never compare
\* that suite with the suite of the check run.
C39_UrlKeyOfOwnSuite ==
    Served =>
        resp.arg.url_key
            = load_check_suite(load_check_run(resp.arg.check_run).check_suite)
                .url_key

\* What does hold: a page is served only with the url_key of the check
\* suite that the request names.
UrlKeyOfNamedSuite ==
    Served =>
        resp.arg.url_key = load_check_suite(resp.arg.check_suite).url_key

\* A page of a check run is served to a request that names its own suite.
OwnSuiteServed ==
    /\ Served
    /\ load_check_run(resp.arg.check_run).check_suite = resp.arg.check_suite

\* A request of user u to cancel job j, to put a value into its store or
\* to upload a chunk or an input to it.
WriteRequest(u, j) ==
    \/ \E lc \in BOOLEAN : JobCancelFor(u, j, lc)
    \/ \E lw \in BOOLEAN, d \in ChunkData : JobUploadChunkFor(u, j, lw, d)
    \/ \E lw \in BOOLEAN, k \in CommitIds, n \in InputNames \cup PathNames,
          cl \in ChunkLists :
        JobAddInputFor(u, j, lw, k, n, 1, cl)
    \/ \E lw \in BOOLEAN, n \in InputNames, cl \in ChunkLists :
        JobAddInputSyncFor(u, j, lw, n, 1, cl)
    \/ \E lc \in BOOLEAN, n \in StoreNames, sec \in BOOLEAN :
        JobStorePutFor(u, j, lc, n, "v1", sec)

\* C40: admin.job.read only lets a user view the jobs of other users: a
\* user who does not own a job cannot cancel it, put values into its store
\* or upload chunks or inputs to it, with or without admin.job.read; such a
\* request changes nothing.  Violated: every handler takes the job from
\* load_job_for_user, which gives it to a holder of admin.job.read, and
\* none asks again whether the user owns the job.
C40_ReadPrivilegeOnlyReads ==
    [][\A u \in user, j \in JobIds :
        (job[j].owner # u.name /\ WriteRequest(u, j)) => OnlyResponds]_vars

\* What does hold: a user who neither owns the job nor holds
\* admin.job.read changes nothing with such a request.
StrangerChangesNothing ==
    [][\A u \in user, j \in JobIds :
        (~Permitted(u, j) /\ WriteRequest(u, j)) => OnlyResponds]_vars
====
